---- MODULE Spec2Model ----
(***************************************************************************)
(* A model of the transfer-ingestion and volume-aggregation pipeline of    *)
(* the Cypher analytics dashboard: the initial fetch                       *)
(* (fetchTransactionsWithAlchemy / updateVolumeCache), the incremental     *)
(* fetch (fetchIncrementalTransactions / updateVolumeCache), the viem      *)
(* based scripts of cacheTransactions.js (getLogsInChunks,                 *)
(* updateCachedTransactions, processAndCacheAggregatedData,                *)
(* updateCacheWithAlchemy) and preloadCache, over a file cache holding one *)
(* transactions-{wallet}-{year} and one volume-{wallet}-{year} entry.      *)
(*                                                                         *)
(* Time is counted in ticks of 15 minutes since 2025-01-01T00:00Z, days    *)
(* are day numbers (0 = 2025-01-01), money is counted in cents.            *)
(***************************************************************************)
EXTENDS Integers, Sequences, FiniteSets, TLC

(***************************************************************************)
(* Calendar and JavaScript Date arithmetic                                 *)
(***************************************************************************)
TicksPerHour == 2 * 2
TicksPerDay == 24 * TicksPerHour

\* First days of the months December 2024 .. February 2026.
MonthStarts == {-31, 0, 31, 59, 90, 120, 151, 181, 212, 243, 273, 304, 334, 365, 396}

\* the first day of the month of each day of December 2024 .. February 2026
MonthStartTable ==
  [d \in -31 .. 423 |->
     CHOOSE m \in MonthStarts : m <= d /\ \A k \in MonthStarts : k <= d => k <= m]

MonthStartOf(d) == MonthStartTable[d]

\* Date.getMonth(), 0-based
MonthIndexOf(d) == (Cardinality({m \in MonthStarts : m <= d}) - 2) % 12

\* Date.getFullYear()
YearOf(d) == IF d < 0 THEN 2024 ELSE IF d < 365 THEN 2025 ELSE 2026

\* Date.getDate()
DayOfMonth(d) == d - MonthStartOf(d) + 1

\* Date.getDay(): 0 = Sunday; 2025-01-01 is a Wednesday
DayOfWeek(d) == (d + 3) % 7

\* new Date('YYYY-MM-DD'): midnight UTC of day d
DateFromISO(d) == d * TicksPerDay

\* new Date(y, m, d): midnight local time of day d; tz = local time - UTC, in ticks
LocalMidnight(d, tz) == d * TicksPerDay - tz

\* the local calendar day of an instant (getDate/getMonth/getFullYear/getDay, date-fns format)
LocalDay(t, tz) == (t + tz) \div TicksPerDay

\* date.toISOString().split('T')[0]: the UTC calendar day of an instant
ISODay(t) == t \div TicksPerDay

\* date.setDate(date.getDate() + k)
AddDays(t, k) == t + k * TicksPerDay

(***************************************************************************)
(* Bounds of the model                                                     *)
(***************************************************************************)
\* how many requests of one call of getLogsInChunks the RPC node fails with a
\* transient error
MaxFaults == 3

(***************************************************************************)
(* Program constants                                                       *)
(***************************************************************************)
StartBlock == 24500000
BlocksPerDay == 43200
SafetyBuffer == 5
AprilDaysIntoYear == 90
MayDaysIntoYear == 120
FirstPassMaxCount == 200
MayMaxCount == 500
PagedMaxCount == 200
IncrementalMaxCount == 1000
AlchemyUpdateMaxCount == 1000
AlchemyUpdateStartBlock == 24000000
DefaultChunkSize == 10000
MaxChunksToProcess == 100
RequestedYear == 2025
MaxPages == 5
LogsMaxRetries == 3
PagedMaxRetries == 5
EthFallbackPrice == 3500
FreshMs == 900000
MsPerTick == 15 * 60 * 1000

\* local time - UTC of the machine the scripts run on: UTC-5, UTC, UTC+2
TZOffsets == {-5 * TicksPerHour, 0, 2 * TicksPerHour}

\* the moments at which runs may start: the clock (12:00Z of 2025-01-21,
\* 2025-02-15, 2025-04-03, 2025-05-17) and the chain head the provider
\* reports then; the chain runs a little ahead of or behind 43200 blocks a day.
\* At the first of them the wallet has no transfer yet.
Epochs ==
  << [now |-> 20 * TicksPerDay + 12 * TicksPerHour,
      head |-> StartBlock + 20 * BlocksPerDay + SafetyBuffer],
     [now |-> 45 * TicksPerDay + 12 * TicksPerHour,
      head |-> StartBlock + 46 * BlocksPerDay + SafetyBuffer],
     [now |-> 92 * TicksPerDay + 12 * TicksPerHour,
      head |-> StartBlock + 93 * BlocksPerDay + SafetyBuffer],
     [now |-> 136 * TicksPerDay + 12 * TicksPerHour,
      head |-> StartBlock + 130 * BlocksPerDay + SafetyBuffer] >>

(***************************************************************************)
(* The chain: the transfers that involve the wallet, in chain order.       *)
(* meta: the provider attaches metadata.blockTimestamp to the record even  *)
(* when the request does not set withMetadata. hC is a transfer of $0.50   *)
(* at 2025-02-01T00:30Z, hA a transaction with two transfers to the wallet *)
(* on 2025-02-20, hB an outgoing transfer two days later, hD a transfer    *)
(* the provider reports without metadata unless asked.                     *)
(***************************************************************************)
World ==
  << [hash |-> "hC", blockNum |-> StartBlock + 31 * BlocksPerDay + 900,
      ts |-> 31 * TicksPerDay + 2, value |-> 50, asset |-> "USDC",
      incoming |-> TRUE, category |-> "erc20", meta |-> TRUE],
     [hash |-> "hA", blockNum |-> StartBlock + 50 * BlocksPerDay + 18000,
      ts |-> 50 * TicksPerDay + 40, value |-> 10000, asset |-> "USDC",
      incoming |-> TRUE, category |-> "erc20", meta |-> TRUE],
     [hash |-> "hA", blockNum |-> StartBlock + 50 * BlocksPerDay + 18000,
      ts |-> 50 * TicksPerDay + 40, value |-> 2550, asset |-> "USDC",
      incoming |-> TRUE, category |-> "erc20", meta |-> TRUE],
     [hash |-> "hB", blockNum |-> StartBlock + 52 * BlocksPerDay + 7,
      ts |-> 52 * TicksPerDay + 50, value |-> 4000, asset |-> "USDC",
      incoming |-> FALSE, category |-> "erc20", meta |-> TRUE],
     [hash |-> "hD", blockNum |-> StartBlock + 129 * BlocksPerDay + 21600,
      ts |-> 129 * TicksPerDay + 48, value |-> 12345, asset |-> "USDT",
      incoming |-> TRUE, category |-> "erc20", meta |-> FALSE] >>

(***************************************************************************)
(* Sequence helpers                                                        *)
(***************************************************************************)
RECURSIVE Take(_, _)
Take(s, n) == IF n <= 0 \/ s = <<>> THEN <<>> ELSE <<Head(s)>> \o Take(Tail(s), n - 1)

RECURSIVE Reverse(_)
Reverse(s) == IF s = <<>> THEN <<>> ELSE Reverse(Tail(s)) \o <<Head(s)>>

RECURSIVE FlatMap(_, _)
FlatMap(F(_), s) == IF s = <<>> THEN <<>> ELSE F(Head(s)) \o FlatMap(F, Tail(s))

\* Array.prototype.sort((a, b) => a.blockNumber - b.blockNumber): stable
RECURSIVE InsertByBlock(_, _)
InsertByBlock(sorted, tx) ==
  IF sorted = <<>> THEN <<tx>>
  ELSE IF Head(sorted).blockNumber <= tx.blockNumber
       THEN <<Head(sorted)>> \o InsertByBlock(Tail(sorted), tx)
       ELSE <<tx>> \o sorted

RECURSIVE SortByBlockFrom(_, _)
SortByBlockFrom(acc, s) ==
  IF s = <<>> THEN acc ELSE SortByBlockFrom(InsertByBlock(acc, Head(s)), Tail(s))

SortByBlock(s) == SortByBlockFrom(<<>>, s)

(***************************************************************************)
(* The data provider                                                       *)
(***************************************************************************)
\* alchemy.core.getAssetTransfers(params) against a chain whose head is `head`:
\* the matching transfers of the closed block interval, at most maxCount of
\* them, and a pageKey when more remain.
Matching(params, head) ==
  SelectSeq(World, LAMBDA w :
     /\ w.blockNum >= params.fromBlock
     /\ w.blockNum <= params.toBlock
     /\ w.blockNum <= head
     /\ w.incoming = params.incoming
     /\ w.category \in params.category)

Tag(w, withMetadata) ==
  [hash |-> w.hash, blockNum |-> w.blockNum, ts |-> w.ts, value |-> w.value,
   asset |-> w.asset, incoming |-> w.incoming, hasMeta |-> (withMetadata \/ w.meta)]

RECURSIVE Drop(_, _)
Drop(s, n) == IF n <= 0 \/ s = <<>> THEN s ELSE Drop(Tail(s), n - 1)

\* params.page: how many pages the pageKey of the request has already skipped
GetAssetTransfers(params, head) ==
  LET all == IF params.desc THEN Reverse(Matching(params, head)) ELSE Matching(params, head)
      rest == Drop(all, params.page * params.maxCount)
      page == Take(rest, params.maxCount)
  IN [transfers |-> [i \in DOMAIN page |-> Tag(page[i], params.withMetadata)],
      pageKey |-> Len(rest) > params.maxCount]

(***************************************************************************)
(* Buckets: a bucket array with one entry per key is a set of              *)
(* [date, volume] records.                                                 *)
(***************************************************************************)
RECURSIVE SumVolumes(_)
SumVolumes(buckets) ==
  IF buckets = {} THEN 0
  ELSE LET b == CHOOSE x \in buckets : TRUE
       IN b.volume + SumVolumes(buckets \ {b})

RECURSIVE SumValues(_)
SumValues(txs) == IF txs = <<>> THEN 0 ELSE Head(txs).value + SumValues(Tail(txs))

Dates(buckets) == {b.date : b \in buckets}

\* the volume a bucket array holds for a key, 0 when it holds none
VolumeAt(buckets, d) == SumVolumes({b \in buckets : b.date = d})

\* for (const day of dailyData) map.set(key(day), map.get(key(day)) + day.volume)
GroupBy(buckets, Key(_)) ==
  {[date |-> k, volume |-> SumVolumes({b \in buckets : Key(b.date) = k})] :
     k \in {Key(b.date) : b \in buckets}}

\* if (!map.has(key)) map.set(key, 0), for every key of `keys`
FillZero(buckets, keys) ==
  buckets \cup {[date |-> k, volume |-> 0] : k \in keys \ Dates(buckets)}

(***************************************************************************)
(* initialCacheFetch.js: monthlyChunks                                     *)
(***************************************************************************)
Min(a, b) == IF a <= b THEN a ELSE b
Max(a, b) == IF a >= b THEN a ELSE b

\* new Date(year, 11, 31, 23, 59, 59), to the tick
YearEnd(tz) == LocalMidnight(365, tz) - 1

EffectiveEndDate(now, tz) == IF YearEnd(tz) > now THEN now ELSE YearEnd(tz)

MonthCount(now, tz) ==
  LET e == LocalDay(EffectiveEndDate(now, tz), tz)
  IN (YearOf(e) - YearOf(LocalDay(LocalMidnight(0, tz), tz))) * 12 + MonthIndexOf(e) - 0 + 1

Chunk(month, week, startBlock, endBlock) ==
  [month |-> month, week |-> week, startBlock |-> startBlock, endBlock |-> endBlock]

AprilChunks ==
  LET cs == StartBlock + AprilDaysIntoYear * BlocksPerDay
      W(week) == Chunk(4, week + 1, cs + week * 7 * BlocksPerDay,
                       Min(cs + week * 7 * BlocksPerDay + 7 * BlocksPerDay,
                           cs + 30 * BlocksPerDay))
  IN << W(1), W(2), W(3), Chunk(4, 1, cs, cs + 7 * BlocksPerDay) >>

MayChunks(now, tz, currentBlock) ==
  LET cs == StartBlock + MayDaysIntoYear * BlocksPerDay
      currentDay == DayOfMonth(LocalDay(now, tz))
      weeksInMay == (currentDay + 6) \div 7
      W(week) == Chunk(5, week + 1, cs + week * 7 * BlocksPerDay,
                       Min(cs + week * 7 * BlocksPerDay + 7 * BlocksPerDay, currentBlock))
  IN [w \in 1..(weeksInMay - 1) |-> W(w)] \o << Chunk(5, 1, cs, cs + 7 * BlocksPerDay) >>

CurrentMonthChunk(month, currentMonth, monthCount, currentBlock) ==
  LET totalBlocks == currentBlock - StartBlock
      prevMonthIndex == Max(0, currentMonth - 1)
      prevMonthStartBlock == StartBlock + (totalBlocks * prevMonthIndex) \div monthCount
      prevMonthEndBlock == StartBlock + (totalBlocks * currentMonth) \div monthCount - 1
  IN << Chunk(month, 0,
              prevMonthEndBlock - (prevMonthEndBlock - prevMonthStartBlock) \div 2,
              currentBlock) >>

OtherMonthChunk(i, monthCount, currentBlock) ==
  LET totalBlocks == currentBlock - StartBlock
      prevMonthIndex == Max(0, i - 1)
      prevMonthStartBlock == IF prevMonthIndex = 0 THEN StartBlock
                             ELSE StartBlock + (totalBlocks * prevMonthIndex) \div monthCount
      prevMonthEndBlock == StartBlock + (totalBlocks * i) \div monthCount - 1
  IN << Chunk(i + 1, 0,
              prevMonthEndBlock - (prevMonthEndBlock - prevMonthStartBlock) \div 4,
              currentBlock) >>

MonthlyChunks(now, tz, currentBlock) ==
  LET currentYear == YearOf(LocalDay(now, tz))
      currentMonth == MonthIndexOf(LocalDay(now, tz))
      monthCount == MonthCount(now, tz)
      ChunksOf(i) ==
        IF (i + 1 = 4 \/ i + 1 = 5) /\ RequestedYear = 2025
        THEN IF i + 1 = 4 THEN AprilChunks ELSE MayChunks(now, tz, currentBlock)
        ELSE IF RequestedYear = currentYear /\ i + 1 = currentMonth + 1
             THEN CurrentMonthChunk(i + 1, currentMonth, monthCount, currentBlock)
             ELSE OtherMonthChunk(i, monthCount, currentBlock)
  IN FlatMap(ChunksOf, [k \in 1..monthCount |-> k - 1])

(***************************************************************************)
(* initialCacheFetch.js: prices and normalisation                          *)
(***************************************************************************)
WalletAddress == "wallet"
Stablecoins == {"USDC", "USDT", "DAI"}
KnownTokens == {"ETH", "USDC", "WETH", "USDT", "DAI"}

\* getTokenPrice(tokenSymbol) with an empty priceCache; dex is the outcome of
\* the Aerodrome lookup: [found, price]
GetTokenPrice(tokenSymbol, dex) ==
  IF tokenSymbol \in Stablecoins THEN 1
  ELSE IF tokenSymbol \notin KnownTokens THEN 1
  ELSE IF dex.found THEN dex.price
  ELSE IF tokenSymbol \in {"ETH", "WETH"} THEN EthFallbackPrice
  ELSE 1

\* no transfer of World is priced through the DEX
DexDown == [found |-> FALSE, price |-> 0]

\* getTokenPrice(tokenSymbol) of initialCacheFetch.js with the priceCache it
\* finds: a cached price is returned before anything else
CachedGetTokenPrice(cache, tokenSymbol, dex) ==
  IF tokenSymbol \in DOMAIN cache THEN cache[tokenSymbol]
  ELSE GetTokenPrice(tokenSymbol, dex)

\* the priceCache getTokenPrice leaves: every price it works out is cached,
\* except the 1.0 of a symbol that is not in TOKENS
PriceCacheAfter(cache, tokenSymbol, dex) ==
  IF tokenSymbol \in DOMAIN cache \/ tokenSymbol \notin KnownTokens THEN cache
  ELSE [symbol \in DOMAIN cache \cup {tokenSymbol} |->
          IF symbol = tokenSymbol THEN GetTokenPrice(tokenSymbol, dex) ELSE cache[symbol]]

\* the transaction objects have the fields date, value, token, tokenAmount,
\* direction, blockNumber, transactionHash; `to` is a field none of them has
Transaction(transfer, date, usdValue, direction) ==
  [date |-> date, value |-> usdValue, token |-> transfer.asset,
   tokenAmount |-> transfer.value, direction |-> direction,
   blockNumber |-> transfer.blockNum, transactionHash |-> transfer.hash,
   to |-> "undefined"]

\* the loops "Process incoming transfers" / "Process outgoing transfers"
ProcessTransfers(transfers, direction, tz) ==
  LET One(transfer) ==
        IF ~transfer.hasMeta THEN <<>>
        ELSE LET date == LocalDay(transfer.ts, tz)
             IN IF YearOf(date) # RequestedYear THEN <<>>
                ELSE << Transaction(transfer, date,
                                    transfer.value * GetTokenPrice(transfer.asset, DexDown),
                                    direction) >>
  IN FlatMap(One, transfers)

\* "Remove duplicates based on transaction hash": the first seen is kept
RECURSIVE UniqueFrom(_, _, _)
UniqueFrom(acc, seen, txs) ==
  IF txs = <<>> THEN acc
  ELSE LET tx == Head(txs)
       IN IF tx.transactionHash = "" \/ tx.transactionHash \in seen
          THEN UniqueFrom(acc, seen, Tail(txs))
          ELSE UniqueFrom(Append(acc, tx), seen \cup {tx.transactionHash}, Tail(txs))

UniqueTransactions(allTransactions) == UniqueFrom(<<>>, {}, allTransactions)

(***************************************************************************)
(* initialCacheFetch.js: the two passes over monthlyChunks                 *)
(***************************************************************************)
Request(pass, fromBlock, toBlock) == [pass |-> pass, fromBlock |-> fromBlock, toBlock |-> toBlock]

\* the un-retried request of the first loop over monthlyChunks
FirstPassParams(chunk) ==
  [fromBlock |-> chunk.startBlock, toBlock |-> chunk.endBlock, incoming |-> TRUE,
   category |-> IF chunk.month = 5 THEN {"erc20", "external", "erc721", "erc1155"}
                ELSE {"erc20", "external"},
   withMetadata |-> TRUE,
   maxCount |-> IF chunk.month = 5 THEN MayMaxCount ELSE FirstPassMaxCount,
   desc |-> FALSE, page |-> 0]

\* the request of the paginated loops: the range is clamped to currentBlock
PagedParams(chunk, currentBlock, incoming, page) ==
  LET safeEndBlock == Min(chunk.endBlock, currentBlock)
      safeStartBlock == Min(chunk.startBlock, safeEndBlock)
  IN [fromBlock |-> safeStartBlock, toBlock |-> safeEndBlock, incoming |-> incoming,
      category |-> IF incoming THEN {"external", "erc20", "erc721", "erc1155"}
                   ELSE {"external", "erc20"},
      withMetadata |-> FALSE, maxCount |-> PagedMaxCount, desc |-> TRUE, page |-> page]

\* the do-while over the pages of one chunk; failPage is the page whose
\* request fails on every attempt (-1: none), which yields { transfers: [] }
RECURSIVE PagedFrom(_, _, _, _, _, _)
PagedFrom(chunk, currentBlock, head, incoming, currentPage, failPage) ==
  LET transfersResult ==
        IF currentPage = failPage THEN [transfers |-> <<>>, pageKey |-> FALSE]
        ELSE GetAssetTransfers(PagedParams(chunk, currentBlock, incoming, currentPage), head)
  IN transfersResult.transfers \o
       (IF transfersResult.pageKey /\ currentPage + 1 < MaxPages
        THEN PagedFrom(chunk, currentBlock, head, incoming, currentPage + 1, failPage)
        ELSE <<>>)

PagedFetch(chunk, currentBlock, head, incoming, failPage) ==
  PagedFrom(chunk, currentBlock, head, incoming, 0, failPage)

(***************************************************************************)
(* The persisted cache entries                                             *)
(***************************************************************************)
\* volume-{wallet}-{year}: absent, the object {daily, weekly, monthly,
\* lastUpdated, blockInfo?} ("agg"), or the bare array of {date, value}
\* that updateCacheWithAlchemy writes ("array", kept in daily)
NoVolume ==
  [shape |-> "none", daily |-> {}, weekly |-> {}, monthly |-> {}, lastUpdated |-> 0,
   hasBlockInfo |-> FALSE, lastProcessedBlock |-> 0]

VolumeData(daily, weekly, monthly, lastUpdated, hasBlockInfo, lastProcessedBlock) ==
  [shape |-> "agg", daily |-> daily, weekly |-> weekly, monthly |-> monthly,
   lastUpdated |-> lastUpdated, hasBlockInfo |-> hasBlockInfo,
   lastProcessedBlock |-> lastProcessedBlock]

\* transactions-{wallet}-{year}
NoTransactions == [exists |-> FALSE, data |-> <<>>]

(***************************************************************************)
(* initialCacheFetch.js: updateVolumeCache                                 *)
(***************************************************************************)
\* the filter as it would be if it let every transaction with a value through
IncomingTransactionsAnyDirection(transactions, walletAddress) ==
  SelectSeq(transactions, LAMBDA tx : tx.direction = "in" \/ tx.value > 0)

\* transactions.filter(tx => tx.direction === 'in' || (tx.value > 0 && tx.to === walletAddress))
IncomingTransactions(transactions, walletAddress) ==
  SelectSeq(transactions, LAMBDA tx :
     tx.direction = "in" \/ (tx.value > 0 /\ tx.to = walletAddress))

\* volumeByDay[tx.date] += tx.value
VolumeByDay(txs) ==
  {[date |-> d, volume |-> SumValues(SelectSeq(txs, LAMBDA tx : tx.date = d))] :
     d \in {txs[i].date : i \in DOMAIN txs}}

\* while (date.getDay() !== 2) date.setDate(date.getDate() + 1)
NextTuesday(t, tz) == AddDays(t, (2 - DayOfWeek(LocalDay(t, tz))) % 7)

\* weekStart.setDate(date.getDate() - date.getDay() + (date.getDay() === 0 ? -6 : 1))
MondayOf(t, tz) ==
  LET dow == DayOfWeek(LocalDay(t, tz))
  IN AddDays(t, (IF dow = 0 THEN -6 ELSE 1) - dow)

\* the week key of the first aggregation loop of updateVolumeCache
InitialWeekKey(d, tz) == ISODay(MondayOf(NextTuesday(DateFromISO(d), tz), tz))

\* new Date(date.getFullYear(), date.getMonth(), 1).toISOString().split('T')[0]
MonthKey(d, tz) == ISODay(LocalMidnight(MonthStartOf(LocalDay(DateFromISO(d), tz)), tz))

\* the keys fillMissingWeeks visits
FillWeekKeys(startDate, endDate, tz) ==
  {ISODay(AddDays(NextTuesday(startDate, tz), 7 * k)) :
     k \in {j \in 0..53 : AddDays(NextTuesday(startDate, tz), 7 * j) <= endDate}}

\* the keys fillMissingMonths visits
FillMonthKeys(startDate, endDate, tz) ==
  LET first == AddDays(startDate, 1 - DayOfMonth(LocalDay(startDate, tz)))
  IN {ISODay(LocalMidnight(m, tz)) :
        m \in {x \in MonthStarts : /\ x >= MonthStartOf(LocalDay(first, tz))
                                   /\ LocalMidnight(x, tz) <= endDate}}

\* updateVolumeCache as it would be if blockInfo recorded the block the scan
\* starts from instead of the block it reached
InitialUpdateVolumeCacheFromStart(walletAddress, transactions, startDate, endDate, currentBlock, now, tz) ==
  LET dailyData == VolumeByDay(IncomingTransactions(transactions, walletAddress))
  IN VolumeData(dailyData,
                FillZero(GroupBy(dailyData, LAMBDA d : InitialWeekKey(d, tz)),
                         FillWeekKeys(startDate, endDate, tz)),
                FillZero(GroupBy(dailyData, LAMBDA d : MonthKey(d, tz)),
                         FillMonthKeys(startDate, endDate, tz)),
                now, TRUE, StartBlock)

InitialUpdateVolumeCache(walletAddress, transactions, startDate, endDate, currentBlock, now, tz) ==
  LET incomingTransactions == IncomingTransactions(transactions, walletAddress)
      dailyData == VolumeByDay(incomingTransactions)
      weekMap == GroupBy(dailyData, LAMBDA d : InitialWeekKey(d, tz))
      weeklyData == FillZero(weekMap, FillWeekKeys(startDate, endDate, tz))
      monthMap == GroupBy(dailyData, LAMBDA d : MonthKey(d, tz))
      monthlyData == FillZero(monthMap, FillMonthKeys(startDate, endDate, tz))
  IN VolumeData(dailyData, weeklyData, monthlyData, now, TRUE, currentBlock)

(***************************************************************************)
(* initialCacheFetch.js: fetchTransactionsWithAlchemy                      *)
(***************************************************************************)
\* getExistingTransactions
GetExistingTransactions(txCache) == IF txCache.exists THEN txCache.data ELSE <<>>

\* the body of fetchTransactionsWithAlchemy from the first loop over
\* monthlyChunks on. firstFail: the index in monthlyChunks of the first-pass
\* request the provider fails (0 or beyond the last chunk: none); pagedFail = [incoming, index]: the
\* chunk whose paginated request fails on every attempt (index 0: none)
FetchOverChunks(monthlyChunks, forceRefresh, now, tz, head, txCache, firstFail, pagedFail) ==
  LET currentBlock == head - SafetyBuffer
      n == Len(monthlyChunks)
      indices == [i \in 1..n |-> i]
      failsFirst == firstFail # 0 /\ firstFail <= n
      sent == IF failsFirst THEN firstFail ELSE n
      firstRequests ==
        {Request("first", monthlyChunks[i].startBlock, monthlyChunks[i].endBlock) : i \in 1..sent}
      Safe(i, incoming) == PagedParams(monthlyChunks[i], currentBlock, incoming, 0)
      pagedRequests ==
        {Request("paged", Safe(i, TRUE).fromBlock, Safe(i, TRUE).toBlock) : i \in 1..n}
        \cup {Request("pagedOut", Safe(i, FALSE).fromBlock, Safe(i, FALSE).toBlock) : i \in 1..n}
      FailPage(i, incoming) ==
        IF pagedFail.index = i /\ pagedFail.incoming = incoming THEN 0 ELSE -1
      FirstPass(i) == GetAssetTransfers(FirstPassParams(monthlyChunks[i]), head).transfers
      PagedIn(i) == PagedFetch(monthlyChunks[i], currentBlock, head, TRUE, FailPage(i, TRUE))
      PagedOut(i) == PagedFetch(monthlyChunks[i], currentBlock, head, FALSE, FailPage(i, FALSE))
      newTransactions ==
        ProcessTransfers(FlatMap(FirstPass, indices) \o FlatMap(PagedIn, indices), "in", tz)
        \o ProcessTransfers(FlatMap(PagedOut, indices), "out", tz)
      allTransactions ==
        IF forceRefresh THEN newTransactions
        ELSE GetExistingTransactions(txCache) \o newTransactions
      uniqueTransactions == SortByBlock(UniqueTransactions(allTransactions))
  IN IF failsFirst
     THEN [threw |-> TRUE, requests |-> firstRequests, answered |-> firstFail - 1,
           failed |-> 1, transactions |-> <<>>, volume |-> NoVolume]
     ELSE [threw |-> FALSE, requests |-> firstRequests \cup pagedRequests,
           answered |-> 3 * n - (IF pagedFail.index = 0 THEN 0 ELSE 1),
           failed |-> IF pagedFail.index = 0 THEN 0 ELSE 1,
           transactions |-> uniqueTransactions,
           volume |-> InitialUpdateVolumeCache(WalletAddress, uniqueTransactions,
                                               LocalMidnight(0, tz), EffectiveEndDate(now, tz),
                                               currentBlock, now, tz)]

\* fetchTransactionsWithAlchemy(walletAddress, year, forceRefresh)
FetchTransactionsWithAlchemy(forceRefresh, now, tz, head, txCache, firstFail, pagedFail) ==
  FetchOverChunks(MonthlyChunks(now, tz, head - SafetyBuffer), forceRefresh, now, tz, head,
                  txCache, firstFail, pagedFail)

(***************************************************************************)
(* incrementalFetch.js                                                     *)
(***************************************************************************)
\* the mock price table of incrementalFetch.js: prices[symbol] || 1.0
IncrementalGetTokenPrice(symbol) == IF symbol \in {"ETH", "WETH"} THEN EthFallbackPrice ELSE 1

\* the single request of fetchIncrementalTransactions: withMetadata is not set
IncrementalParams(startBlock, currentBlock) ==
  [fromBlock |-> startBlock, toBlock |-> currentBlock, incoming |-> TRUE,
   category |-> {"external", "erc20", "erc721", "erc1155"}, withMetadata |-> FALSE,
   maxCount |-> IncrementalMaxCount, desc |-> FALSE, page |-> 0]

\* the loop "Process incoming transfers" of fetchIncrementalTransactions
IncrementalTransactions(transfers, tz) ==
  LET One(transfer) ==
        IF ~transfer.hasMeta THEN <<>>
        ELSE IF YearOf(LocalDay(transfer.ts, tz)) # RequestedYear THEN <<>>
        ELSE << [hash |-> transfer.hash, timestamp |-> transfer.ts,
                 blockNum |-> transfer.blockNum, value |-> transfer.value,
                 asset |-> transfer.asset,
                 valueUSD |-> transfer.value * IncrementalGetTokenPrice(transfer.asset)] >>
  IN FlatMap(One, transfers)

\* weekStart.setDate(date.getDate() - dayOfWeek); weekStart.toISOString().split('T')[0]
IncrementalWeekKey(d, tz) ==
  ISODay(AddDays(DateFromISO(d), 0 - DayOfWeek(LocalDay(DateFromISO(d), tz))))

CalculateWeeklyData(dailyData, tz) == GroupBy(dailyData, LAMBDA d : IncrementalWeekKey(d, tz))

CalculateMonthlyData(dailyData, tz) == GroupBy(dailyData, LAMBDA d : MonthKey(d, tz))

\* the daily buckets of the existing entry that updateVolumeCache loads:
\* existingData.daily when it is an array
ExistingDaily(existingData) == IF existingData.shape = "agg" THEN existingData.daily ELSE {}

\* updateVolumeCache(existingData, newTransactions, currentBlock) of incrementalFetch.js;
\* tx.timestamp.split('T')[0] is the UTC day of the transfer
IncrementalUpdateVolumeCache(existingData, newTransactions, currentBlock, now, tz) ==
  LET existing == ExistingDaily(existingData)
      newDates == {ISODay(newTransactions[i].timestamp) : i \in DOMAIN newTransactions}
      AddedOn(d) ==
        SumValues([i \in DOMAIN newTransactions |->
                     [value |-> IF ISODay(newTransactions[i].timestamp) = d
                                THEN newTransactions[i].valueUSD ELSE 0]])
      dailyData ==
        {[date |-> d, volume |-> VolumeAt(existing, d) + AddedOn(d)] :
           d \in Dates(existing) \cup newDates}
  IN VolumeData(dailyData, CalculateWeeklyData(dailyData, tz),
                CalculateMonthlyData(dailyData, tz), now, TRUE, currentBlock)

\* the start block as it would be if the last processed block were fetched again
IncrementalStartBlockInclusive(lastProcessedBlock) == lastProcessedBlock

\* const startBlock = lastProcessedBlock + 1
IncrementalStartBlock(lastProcessedBlock) == lastProcessedBlock + 1

\* fetchIncrementalTransactions(walletAddress, year, providedLastProcessedBlock);
\* provided = 0 stands for null; fails: the provider fails the request
FetchIncrementalTransactions(provided, now, tz, head, volCache, fails) ==
  LET currentBlock == head - SafetyBuffer
      cached == volCache.hasBlockInfo /\ volCache.lastProcessedBlock # 0
      fromCache == IF provided # 0 THEN provided
                   ELSE IF cached THEN volCache.lastProcessedBlock ELSE 0
      existingVolumeData ==
        IF provided # 0 THEN volCache
        ELSE IF cached THEN volCache ELSE NoVolume
      lastProcessedBlock == IF fromCache = 0 THEN StartBlock ELSE fromCache
      startBlock == IncrementalStartBlock(lastProcessedBlock)
      incomingTransfers == GetAssetTransfers(IncrementalParams(startBlock, currentBlock), head)
      newTransactions == IncrementalTransactions(incomingTransfers.transfers, tz)
      none == [threw |-> FALSE, wrote |-> FALSE, requests |-> {}, answered |-> 0,
               failed |-> 0, newTransactions |-> <<>>, volume |-> volCache]
  IN IF startBlock >= currentBlock THEN none
     ELSE IF fails
     THEN [none EXCEPT !.threw = TRUE, !.failed = 1,
                       !.requests = {Request("incremental", startBlock, currentBlock)}]
     ELSE [none EXCEPT !.wrote = TRUE, !.answered = 1,
                       !.requests = {Request("incremental", startBlock, currentBlock)},
                       !.newTransactions = newTransactions,
                       !.volume = IncrementalUpdateVolumeCache(existingVolumeData, newTransactions,
                                                               currentBlock, now, tz)]

(***************************************************************************)
(* cacheTransactions.js: updateCachedTransactions                          *)
(***************************************************************************)
\* Object.entries(TOKENS) without the native token, in declaration order
TrackedTokens == << "USDC", "WETH", "DAI", "USDT" >>

\* getTokenPriceInUSD(tokenSymbol): fallbackPrices[tokenSymbol] || 0
GetTokenPriceInUSD(tokenSymbol) ==
  IF tokenSymbol \in Stablecoins THEN 1
  ELSE IF tokenSymbol \in {"ETH", "WETH"} THEN EthFallbackPrice
  ELSE 0

\* Math.round of an amount of dollars held in cents
MathRound(cents) == 100 * ((cents + 50) \div 100)

\* the last block the chunk loop of getLogsInChunks reaches when every
\* request is answered: at most MaxChunksToProcess chunks of DefaultChunkSize
LastChunkedBlock(fromBlock, toBlock) ==
  Min(toBlock, fromBlock + MaxChunksToProcess * DefaultChunkSize - 1)

\* the Transfer logs of one token getLogsInChunks returns for args {to} / {from}
LogsInChunks(token, incoming, fromBlock, toBlock, head) ==
  SelectSeq(World, LAMBDA w :
     /\ w.category = "erc20"
     /\ w.asset = token
     /\ w.incoming = incoming
     /\ w.blockNum >= fromBlock
     /\ w.blockNum <= LastChunkedBlock(fromBlock, toBlock)
     /\ w.blockNum <= head)

\* the transaction pushed for one log: format(date, 'yyyy-MM-dd') is the local day
LogTransaction(w, direction, tz) ==
  Transaction(Tag(w, TRUE), LocalDay(w.ts, tz), w.value * GetTokenPriceInUSD(w.asset), direction)

\* Math.max(...cachedData.map(tx => tx.blockNumber)), 0 for an empty list
RECURSIVE HighestBlockNumber(_)
HighestBlockNumber(txs) ==
  IF txs = <<>> THEN 0 ELSE Max(Head(txs).blockNumber, HighestBlockNumber(Tail(txs)))

\* startOfWeek(date, { weekStartsOn: 1 })
StartOfWeek(d) == d - ((DayOfWeek(d) + 6) % 7)

\* processAndCacheAggregatedData(transactions, walletAddress, year)
ProcessAndCacheAggregatedData(transactions, now, tz) ==
  LET incomingTransactions == SelectSeq(transactions, LAMBDA tx : tx.direction = "in")
      byDay == VolumeByDay(incomingTransactions)
      dailyData == {[date |-> b.date, volume |-> MathRound(b.volume)] : b \in byDay}
      endDate == LocalMidnight(364, tz)
      effectiveEndDate == IF endDate > now THEN now ELSE endDate
      days == {d \in 0..364 : LocalMidnight(d, tz) <= effectiveEndDate}
      filledDailyData ==
        {[date |-> d, volume |-> VolumeAt(dailyData, d)] : d \in days}
      weeklyData == GroupBy(filledDailyData, StartOfWeek)
      monthlyData == GroupBy(filledDailyData, MonthStartOf)
  IN VolumeData(filledDailyData, weeklyData, monthlyData, now, FALSE, 0)

\* updateCachedTransactions(walletAddress, year) on an existing transactions
\* entry; fails: a chunk request of getLogsInChunks exhausts its retries
UpdateCachedTransactions(now, tz, head, txCache, volCache, fails) ==
  LET cachedData == txCache.data
      highestBlockNumber == HighestBlockNumber(cachedData)
      currentBlockNumber == head
      fromBlock == highestBlockNumber + 1
      OfToken(token) ==
        LET In(w) == << LogTransaction(w, "in", tz) >>
            Out(w) == << LogTransaction(w, "out", tz) >>
        IN FlatMap(In, LogsInChunks(token, TRUE, fromBlock, currentBlockNumber, head))
           \o FlatMap(Out, LogsInChunks(token, FALSE, fromBlock, currentBlockNumber, head))
      newTransactions == FlatMap(OfToken, TrackedTokens)
      allTransactions == SortByBlock(cachedData \o newTransactions)
      none == [threw |-> FALSE, wrote |-> FALSE, requests |-> {}, answered |-> 0,
               failed |-> 0, transactions |-> txCache, volume |-> volCache]
      asked == {Request("logs", fromBlock, LastChunkedBlock(fromBlock, currentBlockNumber))}
  IN IF highestBlockNumber >= currentBlockNumber THEN none
     ELSE IF fails THEN [none EXCEPT !.failed = 1, !.requests = asked]
     ELSE IF newTransactions = <<>> THEN [none EXCEPT !.answered = 1, !.requests = asked]
     ELSE [none EXCEPT !.wrote = TRUE, !.answered = 1, !.requests = asked,
                       !.transactions = [exists |-> TRUE, data |-> allTransactions],
                       !.volume = ProcessAndCacheAggregatedData(allTransactions, now, tz)]

(***************************************************************************)
(* cacheTransactions.js: updateCacheWithAlchemy                            *)
(***************************************************************************)
\* existingCache.data: the entry saveData persists is the bare array of
\* transactions, which has no property `data`, so the existing list is empty
ExistingCacheData(txCache) == <<>>

AlchemyUpdateParams(fromBlock, currentBlock, incoming) ==
  [fromBlock |-> fromBlock, toBlock |-> currentBlock, incoming |-> incoming,
   category |-> {"erc20", "external"}, withMetadata |-> TRUE,
   maxCount |-> AlchemyUpdateMaxCount, desc |-> FALSE, page |-> 0]

\* the inline price rule of updateCacheWithAlchemy
AlchemyUsdValue(transfer) ==
  IF transfer.asset \in Stablecoins THEN transfer.value
  ELSE IF transfer.asset \in {"ETH", "WETH"} THEN transfer.value * EthFallbackPrice
  ELSE transfer.value

AlchemyTransactions(transfers, direction, tz) ==
  LET One(transfer) ==
        IF YearOf(LocalDay(transfer.ts, tz)) # RequestedYear THEN <<>>
        ELSE << Transaction(transfer, LocalDay(transfer.ts, tz), AlchemyUsdValue(transfer),
                            direction) >>
  IN FlatMap(One, transfers)

\* updateVolumeCache(walletAddress, year, transactions) of cacheTransactions.js:
\* an array of {date, value}, kept here as [date, volume] records
AlchemyUpdateVolumeCache(transactions) ==
  [NoVolume EXCEPT
     !.shape = "array",
     !.daily = {[date |-> d,
                 volume |-> SumValues(SelectSeq(transactions, LAMBDA tx :
                                         tx.date = d /\ tx.direction = "in"))] :
                  d \in {transactions[i].date : i \in DOMAIN transactions}}]

\* updateCacheWithAlchemy(walletAddress, year); fails: the provider fails a request
UpdateCacheWithAlchemy(now, tz, head, txCache, volCache, fails) ==
  LET existingTransactions == ExistingCacheData(txCache)
      highestBlockNumber == HighestBlockNumber(existingTransactions)
      currentBlock == head
      fromBlock == IF highestBlockNumber > 0 THEN highestBlockNumber + 1
                   ELSE AlchemyUpdateStartBlock
      incomingTransfers == GetAssetTransfers(AlchemyUpdateParams(fromBlock, currentBlock, TRUE), head)
      outgoingTransfers == GetAssetTransfers(AlchemyUpdateParams(fromBlock, currentBlock, FALSE), head)
      newTransactions == AlchemyTransactions(incomingTransfers.transfers, "in", tz)
                         \o AlchemyTransactions(outgoingTransfers.transfers, "out", tz)
      allTransactions == SortByBlock(existingTransactions \o newTransactions)
      uniqueTransactions == UniqueTransactions(allTransactions)
      none == [threw |-> FALSE, wrote |-> FALSE, requests |-> {}, answered |-> 0,
               failed |-> 0, transactions |-> txCache, volume |-> volCache]
      asked == {Request("alchemyUpdate", fromBlock, currentBlock)}
  IN IF highestBlockNumber >= currentBlock THEN none
     ELSE IF fails THEN [none EXCEPT !.threw = TRUE, !.failed = 1, !.requests = asked]
     ELSE [none EXCEPT !.wrote = TRUE, !.answered = 2, !.requests = asked,
                       !.transactions = [exists |-> TRUE, data |-> uniqueTransactions],
                       !.volume = AlchemyUpdateVolumeCache(uniqueTransactions)]

(***************************************************************************)
(* api/getVolumeData.js: processVolumeData                                 *)
(***************************************************************************)
\* a persisted bucket array: the buckets in ascending order of date
SortedByDate(buckets) ==
  [i \in 1 .. Cardinality(buckets) |->
     CHOOSE b \in buckets : Cardinality({c \in buckets : c.date < b.date}) = i - 1]

\* the calendar day new Date('YYYY-MM-DD') shows to getDate/getMonth/getDay
ParsedLocalDay(d, tz) == LocalDay(DateFromISO(d), tz)

\* Math.ceil((date.getDate() + new Date(year, date.getMonth(), 1).getDay()) / 7)
WeekNum(localDay) ==
  (DayOfMonth(localDay) + DayOfWeek(MonthStartOf(localDay)) + 6) \div 7

\* `${weekYear}-${weekNum}`
WeekKey(d, tz) == << YearOf(ParsedLocalDay(d, tz)), WeekNum(ParsedLocalDay(d, tz)) >>

\* the first and second pass of fillMissingWeeks: weekMap as the sequence of
\* its [date, volume] entries in insertion order
ServedWeekMap(weeklyData, tz) ==
  LET positive == SelectSeq(weeklyData, LAMBDA week : week.volume > 0)
      firsts == {i \in DOMAIN positive :
                   \A j \in 1 .. i - 1 : WeekKey(positive[j].date, tz) # WeekKey(positive[i].date, tz)}
      Nth(k) == CHOOSE i \in firsts : Cardinality({j \in firsts : j < i}) = k - 1
      Bucket(i) ==
        LET entries == SelectSeq(positive, LAMBDA week :
                          WeekKey(week.date, tz) = WeekKey(positive[i].date, tz))
            tuesdays == SelectSeq(entries, LAMBDA week :
                          DayOfWeek(ParsedLocalDay(week.date, tz)) = 2)
        IN [date |-> IF tuesdays = <<>> THEN entries[1].date
                     ELSE tuesdays[Len(tuesdays)].date,
            volume |-> SumValues([k \in DOMAIN entries |-> [value |-> entries[k].volume]])]
  IN [k \in 1 .. Cardinality(firsts) |-> Bucket(Nth(k))]

\* "Special handling for known weeks with data": the entries of May 2025
\* with a volume that lie in the same half of the month as `current`
MayWeekMatches(weeklyData, current, tz) ==
  LET InMay(week) ==
        /\ YearOf(ParsedLocalDay(week.date, tz)) = 2025
        /\ MonthIndexOf(ParsedLocalDay(week.date, tz)) = 4
        /\ week.volume > 0
      SameHalf(week) ==
        \/ DayOfMonth(ParsedLocalDay(week.date, tz)) <= 14 /\ DayOfMonth(current) <= 14
        \/ DayOfMonth(ParsedLocalDay(week.date, tz)) > 14 /\ DayOfMonth(current) > 14
  IN SelectSeq(weeklyData, LAMBDA week : InMay(week) /\ SameHalf(week))

\* the volume fillMissingWeeks reports for the week of the Tuesday `current`
ServedWeekVolume(weeklyData, weekMap, current, tz) ==
  LET direct == SelectSeq(weekMap, LAMBDA e : e.date = current)
      weekStart == LocalMidnight(current, tz)
      weekEnd == LocalMidnight(current + 6, tz)
      sameWeek == SelectSeq(weekMap, LAMBDA e :
                     DateFromISO(e.date) >= weekStart /\ DateFromISO(e.date) <= weekEnd)
      Close(e) ==
        LET entry == ParsedLocalDay(e.date, tz)
            sameYear == YearOf(current) = YearOf(entry)
            closeWeek == WeekNum(current) - WeekNum(entry) \in -1 .. 1
            monthBoundary ==
              /\ MonthIndexOf(current) # MonthIndexOf(entry)
              /\ \/ WeekNum(current) <= 1 /\ WeekNum(entry) >= 4
                 \/ WeekNum(current) >= 4 /\ WeekNum(entry) <= 1
        IN (sameYear /\ closeWeek) \/ (monthBoundary /\ e.volume > 0)
      close == SelectSeq(weekMap, Close)
      matched == IF direct # <<>> THEN direct[1].volume
                 ELSE IF sameWeek # <<>> THEN sameWeek[1].volume
                 ELSE IF close # <<>> THEN close[1].volume
                 ELSE 0
      may == MayWeekMatches(weeklyData, current, tz)
  IN IF YearOf(current) = 2025 /\ MonthIndexOf(current) = 4 /\ may # <<>>
     THEN may[1].volume
     ELSE matched

\* fillMissingWeeks(weeklyData, startDate, endDate) of getVolumeData.js: one
\* entry per Tuesday from the first Tuesday of the year to endDate
ServedWeeks(weeklyData, endDate, tz) ==
  LET weekMap == ServedWeekMap(weeklyData, tz)
      first == (2 - DayOfWeek(0)) % 7
  IN {[date |-> first + 7 * k,
       volume |-> ServedWeekVolume(weeklyData, weekMap, first + 7 * k, tz)] :
        k \in {j \in 0 .. 52 : LocalMidnight(first + 7 * j, tz) <= endDate}}

\* the volume fillMissingMonths reports for the month that starts on `current`
ServedMonthVolume(monthlyData, current, tz) ==
  LET direct == SelectSeq(monthlyData, LAMBDA e : e.date = current)
      SameMonth(e) ==
        /\ YearOf(ParsedLocalDay(e.date, tz)) = YearOf(current)
        /\ MonthIndexOf(ParsedLocalDay(e.date, tz)) = MonthIndexOf(current)
        /\ e.volume > 0
      same == SelectSeq(monthlyData, SameMonth)
  IN IF direct # <<>> THEN direct[1].volume
     ELSE IF same # <<>> THEN same[1].volume
     ELSE 0

\* fillMissingMonths(monthlyData, startDate, endDate) of getVolumeData.js
ServedMonths(monthlyData, endDate, tz) ==
  {[date |-> m, volume |-> ServedMonthVolume(monthlyData, m, tz)] :
     m \in {x \in MonthStarts : x >= 0 /\ x < 365 /\ LocalMidnight(x, tz) <= endDate}}

\* processVolumeData(data, year): the daily array as it is, the weekly and
\* monthly arrays through fillMissingWeeks and fillMissingMonths
ProcessVolumeData(data, now, tz) ==
  LET endDate == LocalMidnight(364, tz)
      effectiveEndDate == IF endDate > now THEN now ELSE endDate
  IN [daily |-> data.daily,
      weekly |-> ServedWeeks(SortedByDate(data.weekly), effectiveEndDate, tz),
      monthly |-> ServedMonths(SortedByDate(data.monthly), effectiveEndDate, tz)]

(***************************************************************************)
(* src/utils/dataProcessing.ts: fillMissingDates                           *)
(***************************************************************************)
\* dataMap.get(dateKey) || 0, dataMap = new Map(data.map(item => [item.date, item.volume])):
\* the last item of a date wins
DataMapGet(data, dateKey) ==
  LET items == SelectSeq(data, LAMBDA item : item.date = dateKey)
  IN IF items = <<>> THEN 0 ELSE items[Len(items)].volume

\* the days addPeriod advances by: addDays(date, 1), addWeeks(date, 1)
PeriodDays(period) == IF period = "weekly" THEN 7 ELSE 1

\* fillMissingDates as it would be if the loop stopped before endDate
\* (currentDate < endDate)
FillMissingDatesExclusive(data, period, startDate, endDate, tz) ==
  LET step == PeriodDays(period) * TicksPerDay
      n == IF startDate >= endDate THEN 0 ELSE (endDate - startDate - 1) \div step + 1
  IN [k \in 1 .. n |->
        [date |-> LocalDay(startDate + (k - 1) * step, tz),
         volume |-> DataMapGet(data, LocalDay(startDate + (k - 1) * step, tz))]]

\* fillMissingDates(data, period, startDate, endDate) for the periods 'daily'
\* and 'weekly': currentDate runs from startDate while currentDate <= endDate,
\* keeping its local time of day; each entry is keyed by format(currentDate)
FillMissingDates(data, period, startDate, endDate, tz) ==
  LET step == PeriodDays(period) * TicksPerDay
      n == IF startDate > endDate THEN 0 ELSE (endDate - startDate) \div step + 1
  IN [k \in 1 .. n |->
        [date |-> LocalDay(startDate + (k - 1) * step, tz),
         volume |-> DataMapGet(data, LocalDay(startDate + (k - 1) * step, tz))]]

(***************************************************************************)
(* The refresh pipeline as a state machine: runs are sequential, each run  *)
(* is one step.                                                            *)
(***************************************************************************)
VARIABLES
  tz,           \* local time - UTC of the host, in ticks
  now,          \* the clock
  latestBlock,  \* the chain head the provider reports
  txCache,      \* the entry transactions-{wallet}-{year}
  volCache,     \* the entry volume-{wallet}-{year}
  lastRun,      \* what the last run did (history)
  scan,         \* the call of getLogsInChunks in progress
  served,       \* the response, when the last step was a request to getVolumeData
  call,         \* a call of a library function: its arguments and what it returned
  priceCache,   \* the Map priceCache of initialCacheFetch.js: symbol -> price
  disk          \* the file volume-{wallet}-{year}.json as processes write and read it

vars == << tz, now, latestBlock, txCache, volCache, lastRun, scan, served, call, priceCache,
           disk >>

\* the processes that write the file, each with its own saveToCache / saveData
Writers == {"initialCacheFetch", "incrementalFetch"}

\* no file yet, no write under way, nothing read
NoDisk ==
  [exists |-> FALSE, file |-> <<>>, pc |-> [w \in Writers |-> "idle"],
   blocks |-> [w \in Writers |-> 0], observed |-> "nothing"]

\* new Map()
EmptyPriceCache == [symbol \in {} |-> 0]

\* no library call under way
NoCall == [fn |-> "none"]

\* no response in flight
NoResponse == [source |-> "none", daily |-> {}, weekly |-> {}, monthly |-> {}]

\* no call of getLogsInChunks in progress
NoScan ==
  [pc |-> "idle", fromBlock |-> 0, targetToBlock |-> 0, limit |-> 0, currentFromBlock |-> 0,
   chunkSize |-> 0, chunkToBlock |-> 0, chunksProcessed |-> 0, retryCount |-> 0,
   faults |-> 0, waitTime |-> 0, coveredTo |-> 0, contiguous |-> TRUE]

\* which provider request of a run fails on every attempt: none, the
\* first-pass request of the second chunk, or the paginated incoming request
\* of the first chunk; an incremental run has one request to fail
Faults == {"none", "first", "paged"}
FirstFail(fault) == IF fault = "first" THEN 2 ELSE 0
PagedFail(fault) == [incoming |-> TRUE, index |-> IF fault = "paged" THEN 1 ELSE 0]

\* cachedData.blockInfo && cachedData.blockInfo.lastProcessedBlock
PersistedLastProcessedBlock(c) ==
  IF c.hasBlockInfo /\ c.lastProcessedBlock # 0 THEN c.lastProcessedBlock ELSE 0

\* the [hash, value, date] records a list of transactions adds to the volume
Counted(txs) ==
  [i \in DOMAIN txs |-> [hash |-> txs[i].transactionHash, value |-> txs[i].value,
                          date |-> txs[i].date]]

RunRecord(entry, kind, force, r, counted) ==
  [entry |-> entry, kind |-> kind, force |-> force, threw |-> r.threw, wrote |-> r.wrote,
   requests |-> r.requests, answered |-> r.answered, failed |-> r.failed,
   counted |-> counted,
   prevLastProcessedBlock |-> PersistedLastProcessedBlock(volCache),
   head |-> latestBlock]

NoRun ==
  [entry |-> "none", kind |-> "none", force |-> FALSE, threw |-> FALSE, wrote |-> FALSE,
   requests |-> {}, answered |-> 0, failed |-> 0, counted |-> <<>>,
   prevLastProcessedBlock |-> 0, head |-> 0]

Init ==
  /\ tz \in TZOffsets
  /\ now = Epochs[1].now
  /\ latestBlock = Epochs[1].head
  /\ txCache = NoTransactions
  /\ volCache = NoVolume
  /\ lastRun = NoRun
  /\ served = NoResponse
  /\ call = NoCall
  /\ priceCache = EmptyPriceCache
  /\ disk = NoDisk
  /\ scan = NoScan

\* time passes and the chain grows
Advance ==
  /\ \E i \in DOMAIN Epochs :
       /\ i > 1
       /\ Epochs[i - 1].now = now
       /\ now' = Epochs[i].now
       /\ latestBlock' = Epochs[i].head
  /\ served' = NoResponse
  /\ UNCHANGED << tz, txCache, volCache, lastRun, scan, call, priceCache, disk >>

\* the run as it would be if updateVolumeCache added its buckets to the
\* existingVolumeData it reads before saving
InitialEffectMerging(entry, forceRefresh, firstFail, pagedFail) ==
  \E r \in {FetchTransactionsWithAlchemy(forceRefresh, now, tz, latestBlock, txCache,
                                         firstFail, pagedFail)} :
  LET incoming == IncomingTransactions(r.transactions, WalletAddress)
      Merged(old, new) ==
        {[date |-> d, volume |-> VolumeAt(old, d) + VolumeAt(new, d)] :
           d \in Dates(old) \cup Dates(new)}
  IN /\ txCache' = IF r.threw THEN txCache ELSE [exists |-> TRUE, data |-> r.transactions]
     /\ volCache' = IF r.threw THEN volCache
                    ELSE [r.volume EXCEPT !.daily = Merged(volCache.daily, r.volume.daily),
                                          !.weekly = Merged(volCache.weekly, r.volume.weekly),
                                          !.monthly = Merged(volCache.monthly, r.volume.monthly)]
     /\ lastRun' = RunRecord(entry, "initial", forceRefresh,
                             [threw |-> r.threw, wrote |-> ~r.threw, requests |-> r.requests,
                              answered |-> r.answered, failed |-> r.failed],
                             Counted(incoming))

\* the effect of one run of initialCacheFetch(forceRefresh) on the cache
InitialEffect(entry, forceRefresh, firstFail, pagedFail) ==
  \E r \in {FetchTransactionsWithAlchemy(forceRefresh, now, tz, latestBlock, txCache,
                                         firstFail, pagedFail)} :
  LET incoming == IncomingTransactions(r.transactions, WalletAddress)
  IN /\ txCache' = IF r.threw THEN txCache ELSE [exists |-> TRUE, data |-> r.transactions]
     /\ volCache' = IF r.threw THEN volCache ELSE r.volume
     /\ lastRun' = RunRecord(entry, "initial", forceRefresh,
                             [threw |-> r.threw, wrote |-> ~r.threw, requests |-> r.requests,
                              answered |-> r.answered, failed |-> r.failed],
                             Counted(incoming))

\* the effect of one run of fetchIncrementalTransactions on the cache
IncrementalEffect(entry, provided, fails) ==
  \E r \in {FetchIncrementalTransactions(provided, now, tz, latestBlock, volCache, fails)} :
     /\ volCache' = r.volume
     /\ txCache' = txCache
     /\ lastRun' = RunRecord(entry, "incremental", FALSE, r,
                             [i \in DOMAIN r.newTransactions |->
                                [hash |-> r.newTransactions[i].hash,
                                 value |-> r.newTransactions[i].valueUSD,
                                 date |-> ISODay(r.newTransactions[i].timestamp)]])

\* node initialCacheFetch.js: fetchTransactionsWithAlchemy(CYPHER_MASTER_WALLET, '2025', true)
InitialCacheFetch ==
  /\ \E fault \in Faults :
       InitialEffect("initialCacheFetch", TRUE, FirstFail(fault), PagedFail(fault))
  /\ served' = NoResponse
  /\ UNCHANGED << tz, now, latestBlock, scan, call, priceCache, disk >>

\* node incrementalFetch.js / incrementalFetch(walletAddress, year)
IncrementalFetch ==
  /\ \E fails \in BOOLEAN : IncrementalEffect("incrementalFetch", 0, fails)
  /\ served' = NoResponse
  /\ UNCHANGED << tz, now, latestBlock, scan, call, priceCache, disk >>

\* new Date(cachedData?.lastUpdated || 0)
CachedLastUpdated(c) == IF c.shape = "agg" THEN c.lastUpdated ELSE 0 - 55 * 365 * TicksPerDay

\* the test as it would be if it did not look at forceRefresh
IsRecentEvenForced(c, forceRefresh) ==
  now - CachedLastUpdated(c) < FreshMs \div MsPerTick

\* cacheAge < 900000 && !forceRefresh
\* (the clock counts whole ticks, so the age is compared in ticks)
IsRecent(c, forceRefresh) ==
  now - CachedLastUpdated(c) < FreshMs \div MsPerTick /\ ~forceRefresh

\* preloadCache(forceRefresh, walletAddress, year) called from `entry`; when
\* the fetch throws the fallback import of runCachingJob fails too and nothing
\* else is written
PreloadEffect(entry, forceRefresh, fault) ==
  LET lastProcessedBlock ==
        IF volCache.shape = "none" THEN 0 ELSE PersistedLastProcessedBlock(volCache)
  IN IF volCache.shape # "none" /\ IsRecent(volCache, forceRefresh)
     THEN /\ lastRun' = RunRecord(entry, "recent", forceRefresh,
                                  [threw |-> FALSE, wrote |-> FALSE, requests |-> {},
                                   answered |-> 0, failed |-> 0], <<>>)
          /\ UNCHANGED << txCache, volCache >>
     ELSE IF lastProcessedBlock # 0 /\ ~forceRefresh
     THEN IncrementalEffect(entry, lastProcessedBlock, fault # "none")
     ELSE InitialEffect(entry, forceRefresh, FirstFail(fault), PagedFail(fault))

\* node preloadCache.js / preloadCache(forceRefresh, walletAddress, year)
PreloadCache ==
  /\ \E forceRefresh \in BOOLEAN, fault \in Faults :
       PreloadEffect("preloadCache", forceRefresh, fault)
  /\ served' = NoResponse
  /\ UNCHANGED << tz, now, latestBlock, scan, call, priceCache, disk >>

\* GET /api/getVolumeData on a server process that has answered no request
\* yet (apiResponseCache empty), outside Vercel: the persisted entry has no
\* `data` member, so the handler runs preloadCache(false, wallet, year) and
\* answers with processVolumeData(freshData, year), or with the empty data
\* set when the preload did not succeed
GetVolumeData ==
  /\ \E fault \in Faults : PreloadEffect("getVolumeData", FALSE, fault)
  /\ served' =
       IF ~lastRun'.threw /\ volCache'.shape # "none"
       THEN LET processedData ==
                  ProcessVolumeData(IF volCache'.shape = "agg" THEN volCache' ELSE NoVolume,
                                    now, tz)
            IN [source |-> "blockchain-fresh", daily |-> processedData.daily,
                weekly |-> processedData.weekly, monthly |-> processedData.monthly]
       ELSE [source |-> "empty", daily |-> {}, weekly |-> {}, monthly |-> {}]
  /\ UNCHANGED << tz, now, latestBlock, scan, call, priceCache, disk >>

\* updateCachedTransactions(walletAddress, year) on an existing transactions entry
UpdateCachedTransactionsRun ==
  /\ txCache.exists
  /\ \E fails \in BOOLEAN :
       \E r \in {UpdateCachedTransactions(now, tz, latestBlock, txCache, volCache, fails)} :
          /\ txCache' = r.transactions
          /\ volCache' = r.volume
          /\ lastRun' = RunRecord("updateCachedTransactions", "logs", FALSE, r,
                                  Counted(SelectSeq(r.transactions.data,
                                                    LAMBDA tx : tx.direction = "in")))
  /\ served' = NoResponse
  /\ UNCHANGED << tz, now, latestBlock, scan, call, priceCache, disk >>

\* node updateCacheWithAlchemy.js
UpdateCacheWithAlchemyRun ==
  /\ \E fails \in BOOLEAN :
       \E r \in {UpdateCacheWithAlchemy(now, tz, latestBlock, txCache, volCache, fails)} :
          /\ txCache' = r.transactions
          /\ volCache' = r.volume
          /\ lastRun' = RunRecord("updateCacheWithAlchemy", "alchemyUpdate", FALSE, r,
                                  Counted(SelectSeq(r.transactions.data,
                                                    LAMBDA tx : tx.direction = "in")))
  /\ served' = NoResponse
  /\ UNCHANGED << tz, now, latestBlock, scan, call, priceCache, disk >>

Next ==
  \/ Advance
  \/ InitialCacheFetch
  \/ IncrementalFetch
  \/ PreloadCache
  \/ UpdateCachedTransactionsRun
  \/ UpdateCacheWithAlchemyRun
  \/ GetVolumeData

Spec == Init /\ [][Next]_vars

(***************************************************************************)
(* cacheTransactions.js: getLogsInChunks, one step per loop iteration and  *)
(* per attempt                                                             *)
(***************************************************************************)
\* the interval lengths of the calls
ScanLengths ==
  {1, DefaultChunkSize, DefaultChunkSize + 1, 25 * 1000,
   MaxChunksToProcess * DefaultChunkSize, MaxChunksToProcess * DefaultChunkSize + 1}

\* the widest block range the RPC node accepts in one getLogs request (0: any)
ProviderLimits == {0, 5 * 1000, 25 * 100, 10 * 100}

\* chunkToBlock = currentFromBlock + BigInt(chunkSize) - 1n, clamped to targetToBlock
ChunkToBlock(currentFromBlock, chunkSize, targetToBlock) ==
  Min(currentFromBlock + chunkSize - 1, targetToBlock)

\* the node answers 'block range is too wide'
TooWideFor(sc) == sc.limit # 0 /\ sc.chunkToBlock - sc.currentFromBlock + 1 > sc.limit

\* getLogsInChunks(client, {fromBlock, toBlock}, chunkSize = 10000) is called
ScanCall ==
  /\ scan.pc = "idle"
  /\ \E len \in ScanLengths, limit \in ProviderLimits :
       scan' = [NoScan EXCEPT !.pc = "loop", !.fromBlock = StartBlock + 1,
                              !.targetToBlock = StartBlock + len, !.limit = limit,
                              !.currentFromBlock = StartBlock + 1,
                              !.chunkSize = DefaultChunkSize,
                              !.coveredTo = StartBlock]
  /\ UNCHANGED << tz, now, latestBlock, txCache, volCache, lastRun, served, call, priceCache, disk >>

\* while (currentFromBlock <= targetToBlock && chunksProcessed < maxChunksToProcess)
ScanContinues(sc) ==
  sc.currentFromBlock <= sc.targetToBlock /\ sc.chunksProcessed < MaxChunksToProcess

\* the loop body starts on the next chunk
ScanChunk ==
  /\ scan.pc = "loop"
  /\ ScanContinues(scan)
  /\ scan' = [scan EXCEPT !.pc = "attempt", !.retryCount = 0,
                          !.chunkToBlock = ChunkToBlock(scan.currentFromBlock, scan.chunkSize,
                                                        scan.targetToBlock)]
  /\ UNCHANGED << tz, now, latestBlock, txCache, volCache, lastRun, served, call, priceCache, disk >>

\* the loop ends and allLogs is returned
ScanReturn ==
  /\ scan.pc = "loop"
  /\ ~ScanContinues(scan)
  /\ scan' = [scan EXCEPT !.pc = "returned"]
  /\ UNCHANGED << tz, now, latestBlock, txCache, volCache, lastRun, served, call, priceCache, disk >>

\* client.getLogs answers: the logs are pushed, the next chunk starts after chunkToBlock
ScanAnswer ==
  /\ scan.pc = "attempt"
  /\ ~TooWideFor(scan)
  /\ scan' = [scan EXCEPT
                !.pc = "loop",
                !.contiguous = IF scan.currentFromBlock <= scan.chunkToBlock
                               THEN scan.contiguous /\ scan.currentFromBlock = scan.coveredTo + 1
                               ELSE scan.contiguous,
                !.coveredTo = Max(scan.coveredTo, scan.chunkToBlock),
                !.currentFromBlock = scan.chunkToBlock + 1,
                !.chunksProcessed = scan.chunksProcessed + 1]
  /\ UNCHANGED << tz, now, latestBlock, txCache, volCache, lastRun, served, call, priceCache, disk >>

\* after the catch block: the attempt loop goes on while retryCount < maxRetries,
\* else 'Failed to fetch logs after maximum retries' is thrown
AfterCatch(sc) == IF sc.retryCount < LogsMaxRetries THEN sc ELSE [sc EXCEPT !.pc = "threw"]

\* the catch as it would be if it halved the size without recomputing the
\* end of the chunk it retries
ScanTooWideKeepingRange ==
  /\ scan.pc = "attempt"
  /\ TooWideFor(scan)
  /\ scan' = AfterCatch([scan EXCEPT !.retryCount = scan.retryCount + 1,
                                     !.chunkSize = scan.chunkSize \div 2])
  /\ UNCHANGED << tz, now, latestBlock, txCache, volCache, lastRun, served, call, priceCache, disk >>

\* catch: 'block range is too wide', the chunk size is halved
ScanTooWide ==
  /\ scan.pc = "attempt"
  /\ TooWideFor(scan)
  /\ LET newChunkSize == scan.chunkSize \div 2
     IN scan' = AfterCatch([scan EXCEPT
                  !.retryCount = scan.retryCount + 1,
                  !.chunkSize = newChunkSize,
                  !.chunkToBlock = ChunkToBlock(scan.currentFromBlock, newChunkSize,
                                                scan.targetToBlock)])
  /\ UNCHANGED << tz, now, latestBlock, txCache, volCache, lastRun, served, call, priceCache, disk >>

\* catch: 'no backend is currently healthy' / 503 / 'service unavailable'
ScanUnavailable ==
  /\ scan.pc = "attempt"
  /\ scan.faults < MaxFaults
  /\ scan' = AfterCatch([scan EXCEPT !.retryCount = scan.retryCount + 1,
                                     !.faults = scan.faults + 1,
                                     !.waitTime = 2000 * (scan.retryCount + 1)])
  /\ UNCHANGED << tz, now, latestBlock, txCache, volCache, lastRun, served, call, priceCache, disk >>

\* catch: any other error; it is rethrown when retryCount === maxRetries
ScanOtherError ==
  /\ scan.pc = "attempt"
  /\ scan.faults < MaxFaults
  /\ scan' = [scan EXCEPT !.retryCount = scan.retryCount + 1,
                          !.faults = scan.faults + 1,
                          !.waitTime = IF scan.retryCount + 1 = LogsMaxRetries THEN scan.waitTime
                                       ELSE 1000 * (scan.retryCount + 1),
                          !.pc = IF scan.retryCount + 1 = LogsMaxRetries THEN "threw"
                                 ELSE "attempt"]
  /\ UNCHANGED << tz, now, latestBlock, txCache, volCache, lastRun, served, call, priceCache, disk >>

InitChunks ==
  /\ tz = 0
  /\ now = Epochs[1].now
  /\ latestBlock = Epochs[1].head
  /\ txCache = NoTransactions
  /\ volCache = NoVolume
  /\ lastRun = NoRun
  /\ served = NoResponse
  /\ call = NoCall
  /\ priceCache = EmptyPriceCache
  /\ disk = NoDisk
  /\ scan = NoScan

NextChunks ==
  \/ ScanCall
  \/ ScanChunk
  \/ ScanReturn
  \/ ScanAnswer
  \/ ScanTooWide
  \/ ScanUnavailable
  \/ ScanOtherError

SpecChunks == InitChunks /\ [][NextChunks]_vars

(***************************************************************************)
(* fillMissingDates applied to arguments drawn from bounded sets           *)
(***************************************************************************)
\* the times of day a Date argument carries: 00:00, 06:00 and 18:00 local
FillTimesOfDay == {0, 6 * TicksPerHour, 18 * TicksPerHour}

\* the calendar days the arguments lie on: 2024-12-31 .. 2025-02-01
FillStartDays == {0, 29, 30}
FillEndDays == {0 - 1, 0, 30, 31}

\* the input arrays: empty, single buckets, a date given twice, a bucket
\* outside January
FillInputs ==
  { <<>>,
    << [date |-> 0, volume |-> 500] >>,
    << [date |-> 30, volume |-> 700] >>,
    << [date |-> 0, volume |-> 500], [date |-> 0, volume |-> 600] >>,
    << [date |-> 29, volume |-> 300], [date |-> 30, volume |-> 0] >>,
    << [date |-> 0 - 1, volume |-> 400], [date |-> 31, volume |-> 900] >> }

InitFill ==
  /\ tz \in TZOffsets
  /\ now = Epochs[1].now
  /\ latestBlock = Epochs[1].head
  /\ txCache = NoTransactions
  /\ volCache = NoVolume
  /\ lastRun = NoRun
  /\ scan = NoScan
  /\ served = NoResponse
  /\ priceCache = EmptyPriceCache
  /\ disk = NoDisk
  /\ \E data \in FillInputs, period \in {"daily", "weekly"},
        s \in FillStartDays, e \in FillEndDays, st \in FillTimesOfDay, et \in FillTimesOfDay :
       call = [fn |-> "fillMissingDates", data |-> data, period |-> period,
               startDate |-> LocalMidnight(s, tz) + st,
               endDate |-> LocalMidnight(e, tz) + et,
               returned |-> FALSE, filledData |-> <<>>]

\* fillMissingDates(data, period, startDate, endDate) runs and returns
FillMissingDatesCall ==
  /\ call.fn = "fillMissingDates"
  /\ ~call.returned
  /\ call' = [call EXCEPT !.returned = TRUE,
                          !.filledData = FillMissingDates(call.data, call.period,
                                                          call.startDate, call.endDate, tz)]
  /\ UNCHANGED << tz, now, latestBlock, txCache, volCache, lastRun, scan, served, priceCache, disk >>

NextFill == FillMissingDatesCall

SpecFill == InitFill /\ [][NextFill]_vars

(***************************************************************************)
(* The three price functions applied to symbols drawn from a bounded set   *)
(***************************************************************************)
\* the symbols asked for: the tokens of the tables, and two that none of the
\* three scripts lists in TOKENS
PriceSymbols == {"USDC", "USDT", "DAI", "ETH", "WETH", "USDbC", "cbBTC"}

\* what the Aerodrome lookup does: no pair or an error, or a price
DexOutcomes == {DexDown, [found |-> TRUE, price |-> 3600], [found |-> TRUE, price |-> 2]}

InitPrice ==
  /\ tz = 0
  /\ now = Epochs[1].now
  /\ latestBlock = Epochs[1].head
  /\ txCache = NoTransactions
  /\ volCache = NoVolume
  /\ lastRun = NoRun
  /\ scan = NoScan
  /\ served = NoResponse
  /\ call = NoCall
  /\ priceCache = EmptyPriceCache
  /\ disk = NoDisk

PriceCall(fn, tokenSymbol, dex, price) ==
  [fn |-> fn, symbol |-> tokenSymbol, dexFound |-> dex.found,
   cachedBefore |-> IF tokenSymbol \in DOMAIN priceCache THEN priceCache[tokenSymbol] ELSE 0,
   threw |-> FALSE, price |-> price]

\* await getTokenPrice(tokenSymbol) in initialCacheFetch.js
GetTokenPriceCall ==
  /\ \E tokenSymbol \in PriceSymbols, dex \in DexOutcomes :
       /\ call' = PriceCall("getTokenPrice", tokenSymbol, dex,
                            CachedGetTokenPrice(priceCache, tokenSymbol, dex))
       /\ priceCache' = PriceCacheAfter(priceCache, tokenSymbol, dex)
  /\ UNCHANGED << tz, now, latestBlock, txCache, volCache, lastRun, scan, served, disk >>

\* await getTokenPrice(symbol) in incrementalFetch.js
IncrementalGetTokenPriceCall ==
  /\ \E symbol \in PriceSymbols :
       call' = PriceCall("incrementalGetTokenPrice", symbol, DexDown,
                         IncrementalGetTokenPrice(symbol))
  /\ UNCHANGED << tz, now, latestBlock, txCache, volCache, lastRun, scan, served, priceCache, disk >>

\* await getTokenPriceInUSD(tokenSymbol) in cacheTransactions.js
GetTokenPriceInUSDCall ==
  /\ \E tokenSymbol \in PriceSymbols :
       call' = PriceCall("getTokenPriceInUSD", tokenSymbol, DexDown,
                         GetTokenPriceInUSD(tokenSymbol))
  /\ UNCHANGED << tz, now, latestBlock, txCache, volCache, lastRun, scan, served, priceCache, disk >>

NextPrice ==
  \/ GetTokenPriceCall
  \/ IncrementalGetTokenPriceCall
  \/ GetTokenPriceInUSDCall

SpecPrice == InitPrice /\ [][NextPrice]_vars

(***************************************************************************)
(* The cache file under writers and readers in separate processes          *)
(***************************************************************************)
\* JSON.stringify(data, null, 2) of the run of writer w, n blocks long
Output(w, n) == [i \in 1 .. n |-> [run |-> w, block |-> i]]

\* the numbers of blocks a run's output may take
OutputBlocks == {1, 2}

\* a write of `text` at offset 0 into a file that holds `file`
WriteAtStart(text, file) ==
  [i \in 1 .. Max(Len(text), Len(file)) |-> IF i <= Len(text) THEN text[i] ELSE file[i]]

\* JSON.parse succeeds on the complete output of one run only
Parses(file) == \E w \in Writers, n \in OutputBlocks : file = Output(w, n)

InitWriters ==
  /\ tz = 0
  /\ now = Epochs[1].now
  /\ latestBlock = Epochs[1].head
  /\ txCache = NoTransactions
  /\ volCache = NoVolume
  /\ lastRun = NoRun
  /\ scan = NoScan
  /\ served = NoResponse
  /\ call = NoCall
  /\ priceCache = EmptyPriceCache
  /\ disk = NoDisk

\* fs.writeFileSync(cachePath, ...) of a writer, first half: the file is
\* opened for writing, which creates or truncates it
WriteFileOpen ==
  /\ \E w \in Writers, n \in OutputBlocks :
       /\ disk.pc[w] = "idle"
       /\ disk' = [disk EXCEPT !.exists = TRUE, !.file = <<>>,
                               !.pc[w] = "opened", !.blocks[w] = n]
  /\ UNCHANGED << tz, now, latestBlock, txCache, volCache, lastRun, scan, served, call,
                  priceCache >>

\* fs.writeFileSync(cachePath, ...) of a writer, second half: the text is
\* written from the start of the file, and the file is closed
WriteFileWrite ==
  /\ \E w \in Writers :
       /\ disk.pc[w] = "opened"
       /\ disk' = [disk EXCEPT !.file = WriteAtStart(Output(w, disk.blocks[w]), disk.file),
                               !.pc[w] = "idle"]
  /\ UNCHANGED << tz, now, latestBlock, txCache, volCache, lastRun, scan, served, call,
                  priceCache >>

\* getFromCache(key) of a reader: null when the file does not exist or
\* JSON.parse throws, the parsed data otherwise
GetFromCache ==
  /\ disk' = [disk EXCEPT !.observed =
                 IF ~disk.exists THEN "absent"
                 ELSE IF Parses(disk.file) THEN disk.file[1].run
                 ELSE "unparsable"]
  /\ UNCHANGED << tz, now, latestBlock, txCache, volCache, lastRun, scan, served, call,
                  priceCache >>

NextWriters ==
  \/ WriteFileOpen
  \/ WriteFileWrite
  \/ GetFromCache

SpecWriters == InitWriters /\ [][NextWriters]_vars

(***************************************************************************)
(* saveData / getData / dataExists over one key, in either backend         *)
(***************************************************************************)
\* the clock of this specification stops here
MaxTtlClock == 5

\* the ttl arguments of saveData, in clock units
Ttls == {1, 3}

\* the stored entry: `until` is the instant the ttl given to saveData elapses,
\* `expires` is what the backend itself keeps of it (the file backend keeps
\* nothing: saveToCache(key, data) takes no ttl)
NoEntry(backend) ==
  [backend |-> backend, saved |-> FALSE, data |-> 0, until |-> 0, expires |-> 0]

InitTtl ==
  /\ tz = 0
  /\ now = 0
  /\ latestBlock = Epochs[1].head
  /\ txCache = NoTransactions
  /\ volCache = NoVolume
  /\ lastRun = NoRun
  /\ scan = NoScan
  /\ served = NoResponse
  /\ call = NoCall
  /\ priceCache = EmptyPriceCache
  /\ \E backend \in {"file", "blob"} : disk = NoEntry(backend)

\* saveData(key, data, ttl): saveToCache writes the data alone,
\* saveToBlobCache writes {data, expires: Date.now() + ttl * 1000, lastUpdated}
SaveDataCall ==
  /\ \E data \in {1, 2}, ttl \in Ttls :
       disk' = [disk EXCEPT !.saved = TRUE, !.data = data, !.until = now + ttl,
                            !.expires = IF disk.backend = "blob" THEN now + ttl ELSE 0]
  /\ call' = NoCall
  /\ UNCHANGED << tz, now, latestBlock, txCache, volCache, lastRun, scan, served, priceCache >>

\* getData(key, ignoreExpiry): getFromCache returns the parsed file,
\* getFromBlobCache returns null when !ignoreExpiry && expires < Date.now()
GetDataCall ==
  /\ \E ignoreExpiry \in BOOLEAN :
       call' = [fn |-> "getData", ignoreExpiry |-> ignoreExpiry,
                result |-> IF ~disk.saved THEN 0
                           ELSE IF disk.backend = "file" THEN disk.data
                           ELSE IF ~ignoreExpiry /\ disk.expires < now THEN 0
                           ELSE disk.data]
  /\ UNCHANGED << tz, now, latestBlock, txCache, volCache, lastRun, scan, served, priceCache,
                  disk >>

\* dataExists(key): fs.existsSync(cachePath) / the HEAD request answers ok
DataExistsCall ==
  /\ call' = [fn |-> "dataExists", ignoreExpiry |-> FALSE,
              result |-> IF disk.saved THEN 1 ELSE 0]
  /\ UNCHANGED << tz, now, latestBlock, txCache, volCache, lastRun, scan, served, priceCache,
                  disk >>

\* time passes
TtlTick ==
  /\ now < MaxTtlClock
  /\ now' = now + 1
  /\ call' = NoCall
  /\ UNCHANGED << tz, latestBlock, txCache, volCache, lastRun, scan, served, priceCache, disk >>

NextTtl ==
  \/ SaveDataCall
  \/ GetDataCall
  \/ DataExistsCall
  \/ TtlTick

SpecTtl == InitTtl /\ [][NextTtl]_vars

(***************************************************************************)
(* Two preloadCache runs on the same key, interleaved at their awaits      *)
(***************************************************************************)
Runs == {1, 2}

\* the runs before they start
NoRuns ==
  [fn |-> "preloadCache", pc |-> [r \in Runs |-> "start"],
   provided |-> [r \in Runs |-> 0], existing |-> [r \in Runs |-> NoVolume]]

\* an entry written by the initial fetch at one epoch, read at a later one
InitRaces ==
  /\ tz \in TZOffsets
  /\ \E i \in DOMAIN Epochs, j \in DOMAIN Epochs :
       /\ i < j
       /\ now = Epochs[j].now
       /\ latestBlock = Epochs[j].head
       /\ volCache = FetchTransactionsWithAlchemy(TRUE, Epochs[i].now, tz, Epochs[i].head,
                                                  NoTransactions, 0, PagedFail("none")).volume
  /\ txCache = NoTransactions
  /\ lastRun = NoRun
  /\ scan = NoScan
  /\ served = NoResponse
  /\ call = NoRuns
  /\ priceCache = EmptyPriceCache
  /\ disk = NoDisk

\* preloadCache reads the entry: a recent one ends the run, otherwise its
\* blockInfo.lastProcessedBlock is what the run hands to incrementalFetch
RaceRead ==
  /\ \E r \in Runs :
       /\ call.pc[r] = "start"
       /\ PersistedLastProcessedBlock(volCache) # 0
       /\ call' = IF IsRecent(volCache, FALSE)
                  THEN [call EXCEPT !.pc[r] = "done"]
                  ELSE [call EXCEPT !.pc[r] = "read",
                                    !.provided[r] = PersistedLastProcessedBlock(volCache)]
  /\ UNCHANGED << tz, now, latestBlock, txCache, volCache, lastRun, scan, served, priceCache,
                  disk >>

\* fetchIncrementalTransactions reads the entry again: existingVolumeData
RaceReread ==
  /\ \E r \in Runs :
       /\ call.pc[r] = "read"
       /\ call' = [call EXCEPT !.pc[r] = "reread", !.existing[r] = volCache]
  /\ UNCHANGED << tz, now, latestBlock, txCache, volCache, lastRun, scan, served, priceCache,
                  disk >>

\* the provider has answered: updateVolumeCache(existingVolumeData,
\* newTransactions, currentBlock) and saveData
RaceSave ==
  /\ \E r \in Runs :
       /\ call.pc[r] = "reread"
       /\ \E run \in {FetchIncrementalTransactions(call.provided[r], now, tz, latestBlock,
                                                   call.existing[r], FALSE)} :
            volCache' = IF run.wrote THEN run.volume ELSE volCache
       /\ call' = [call EXCEPT !.pc[r] = "done"]
  /\ UNCHANGED << tz, now, latestBlock, txCache, lastRun, scan, served, priceCache, disk >>

NextRaces ==
  \/ RaceRead
  \/ RaceReread
  \/ RaceSave

SpecRaces == InitRaces /\ [][NextRaces]_vars

(***************************************************************************)
(* fetchIncrementalTransactions against a busy wallet: the transfers of    *)
(* the range startBlock .. currentBlock are numbered in chain order, all   *)
(* incoming, of the requested year and with metadata.blockTimestamp        *)
(***************************************************************************)
MaxTransfersInRange == 1001

\* alchemy.core.getAssetTransfers({..., maxCount}) on a range that holds n
\* matching transfers: the first maxCount of them, and a pageKey when more
\* remain
TransfersOfRange(n, maxCount) ==
  [transfers |-> 1 .. Min(n, maxCount), pageKey |-> n > maxCount]

InitCursor ==
  /\ tz \in TZOffsets
  /\ now = Epochs[2].now
  /\ latestBlock = Epochs[2].head
  /\ txCache = NoTransactions
  /\ volCache = NoVolume
  /\ lastRun = NoRun
  /\ scan = NoScan
  /\ served = NoResponse
  /\ \E n \in 0 .. MaxTransfersInRange :
       call = [fn |-> "fetchIncrementalTransactions", pc |-> "start", inRange |-> n,
               transfers |-> {}, pageKey |-> FALSE, added |-> {}, lastProcessedBlock |-> 0]
  /\ priceCache = EmptyPriceCache
  /\ disk = NoDisk

\* the one request of the run
CursorRequest ==
  /\ call.fn = "fetchIncrementalTransactions"
  /\ call.pc = "start"
  /\ \E incomingTransfers \in {TransfersOfRange(call.inRange, IncrementalMaxCount)} :
       call' = [call EXCEPT !.pc = "answered",
                            !.transfers = incomingTransfers.transfers,
                            !.pageKey = incomingTransfers.pageKey]
  /\ UNCHANGED << tz, now, latestBlock, txCache, volCache, lastRun, scan, served, priceCache,
                  disk >>

\* for (const transfer of incomingTransfers.transfers) ...; updateVolumeCache(
\* existingVolumeData, newTransactions, currentBlock); saveData
CursorSave ==
  /\ call.fn = "fetchIncrementalTransactions"
  /\ call.pc = "answered"
  /\ call' = [call EXCEPT !.pc = "saved",
                          !.added = call.transfers,
                          !.lastProcessedBlock = latestBlock - SafetyBuffer]
  /\ UNCHANGED << tz, now, latestBlock, txCache, volCache, lastRun, scan, served, priceCache,
                  disk >>

NextCursor ==
  \/ CursorRequest
  \/ CursorSave

SpecCursor == InitCursor /\ [][NextCursor]_vars

(***************************************************************************)
(* fetchTransactionsWithAlchemy: the paginated loop of one monthly chunk,  *)
(* attempt by attempt. The provider holds `pages` pages of transfers for   *)
(* the chunk; it answers page k with the key of page k + 1 while one       *)
(* remains, and may fail any attempt. A pageKey is the number of the page  *)
(* it leads to, 0 for none.                                                *)
(***************************************************************************)
MaxProviderPages == 7

RECURSIVE Pow2(_)
Pow2(n) == IF n = 0 THEN 1 ELSE 2 * Pow2(n - 1)

\* the loop as it would be without the page ceiling
PageLoopContinuesUncapped(pageKey, currentPage) == pageKey # 0

\* while (pageKey && currentPage < maxPages)
PageLoopContinues(pageKey, currentPage) == pageKey # 0 /\ currentPage < MaxPages

\* Math.min(1000 * Math.pow(2, retries), 30000), retries already incremented
PagedBackoffMs(retries) == Min(1000 * Pow2(retries), 30000)

InitPages ==
  /\ tz \in TZOffsets
  /\ now = Epochs[2].now
  /\ latestBlock = Epochs[2].head
  /\ txCache = NoTransactions
  /\ volCache = NoVolume
  /\ lastRun = NoRun
  /\ scan = NoScan
  /\ served = NoResponse
  /\ \E pages \in 1 .. MaxProviderPages :
       call = [fn |-> "pagedChunk", pc |-> "attempt", pages |-> pages, pageKey |-> 0,
               currentPage |-> 0, retries |-> 0, requests |-> 0,
               allMonthTransfers |-> <<>>, waits |-> <<>>]
  /\ priceCache = EmptyPriceCache
  /\ disk = NoDisk

\* the bookkeeping after a page's attempts: concat the page, take its
\* pageKey, currentPage++, and test the loop condition
AfterPage(c, transfers, pageKey) ==
  [c EXCEPT !.allMonthTransfers = c.allMonthTransfers \o transfers,
            !.pageKey = pageKey,
            !.currentPage = c.currentPage + 1,
            !.retries = 0,
            !.waits = <<>>,
            !.pc = IF PageLoopContinues(pageKey, c.currentPage + 1) THEN "attempt" ELSE "done"]

\* an attempt the provider answers: the page the request's pageKey asks for
\* (the first page without one)
PageAnswered ==
  /\ call.fn = "pagedChunk"
  /\ call.pc = "attempt"
  /\ call.retries < PagedMaxRetries
  /\ LET page == IF call.pageKey = 0 THEN 1 ELSE call.pageKey
         next == IF page < call.pages THEN page + 1 ELSE 0
     IN call' = AfterPage([call EXCEPT !.requests = call.requests + 1], << page >>, next)
  /\ UNCHANGED << tz, now, latestBlock, txCache, volCache, lastRun, scan, served, priceCache,
                  disk >>

\* an attempt that throws: retries++, then either the empty result after
\* maxRetries or the backoff wait and the next attempt
PageFailed ==
  /\ call.fn = "pagedChunk"
  /\ call.pc = "attempt"
  /\ call.retries < PagedMaxRetries
  /\ LET retries == call.retries + 1
         c == [call EXCEPT !.requests = call.requests + 1, !.retries = retries]
     IN call' = IF retries >= PagedMaxRetries
                THEN AfterPage(c, <<>>, 0)
                ELSE [c EXCEPT !.waits = Append(c.waits, PagedBackoffMs(retries))]
  /\ UNCHANGED << tz, now, latestBlock, txCache, volCache, lastRun, scan, served, priceCache,
                  disk >>

\* incomingTransfers.transfers.push(...transfersResult.transfers): the next chunk
PageNextChunk ==
  /\ call.fn = "pagedChunk"
  /\ call.pc = "done"
  /\ \E pages \in 1 .. MaxProviderPages :
       call' = [fn |-> "pagedChunk", pc |-> "attempt", pages |-> pages, pageKey |-> 0,
                currentPage |-> 0, retries |-> 0, requests |-> 0,
                allMonthTransfers |-> <<>>, waits |-> <<>>]
  /\ UNCHANGED << tz, now, latestBlock, txCache, volCache, lastRun, scan, served, priceCache,
                  disk >>

NextPages ==
  \/ PageAnswered
  \/ PageFailed
  \/ PageNextChunk

SpecPages == InitPages /\ [][NextPages]_vars

\* every await of the loop resolves or rejects: the loop is not suspended
\* forever between two of its steps
SpecPagesFair == SpecPages /\ WF_vars(PageAnswered \/ PageFailed)

(***************************************************************************)
(* getLogsInChunks against a node that may answer 'block range is too      *)
(* wide' to any request, whatever its width                                *)
(***************************************************************************)
\* the interval lengths of the calls: one block, and an interval long enough
\* for seven chunks of shrinking size
ShrinkLengths == {1, 35 * 100}

InitShrink ==
  /\ tz = 0
  /\ now = Epochs[1].now
  /\ latestBlock = Epochs[1].head
  /\ txCache = NoTransactions
  /\ volCache = NoVolume
  /\ lastRun = NoRun
  /\ served = NoResponse
  /\ call = NoCall
  /\ priceCache = EmptyPriceCache
  /\ disk = NoDisk
  /\ \E len \in ShrinkLengths :
       scan = [NoScan EXCEPT !.pc = "loop", !.fromBlock = StartBlock + 1,
                             !.targetToBlock = StartBlock + len,
                             !.currentFromBlock = StartBlock + 1,
                             !.chunkSize = DefaultChunkSize,
                             !.coveredTo = StartBlock]

\* catch: 'block range is too wide', whichever range was requested
ScanTooWideReply ==
  /\ scan.pc = "attempt"
  /\ LET newChunkSize == scan.chunkSize \div 2
     IN scan' = AfterCatch([scan EXCEPT
                  !.retryCount = scan.retryCount + 1,
                  !.chunkSize = newChunkSize,
                  !.chunkToBlock = ChunkToBlock(scan.currentFromBlock, newChunkSize,
                                                scan.targetToBlock)])
  /\ UNCHANGED << tz, now, latestBlock, txCache, volCache, lastRun, served, call, priceCache, disk >>

NextShrink ==
  \/ ScanChunk
  \/ ScanReturn
  \/ ScanAnswer
  \/ ScanTooWideReply

SpecShrink == InitShrink /\ [][NextShrink]_vars

(***************************************************************************)
(* getVolumeData.js: the handler on a server process that keeps running,   *)
(* with its in-memory apiResponseCache, while refreshes go on. asOf is the *)
(* persisted entry from which the remembered result was made.              *)
(***************************************************************************)
EmptyApiResponseCache ==
  [fn |-> "apiResponseCache", has |-> FALSE, result |-> NoResponse, asOf |-> NoVolume]

InitServe ==
  /\ tz \in TZOffsets
  /\ now = Epochs[1].now
  /\ latestBlock = Epochs[1].head
  /\ txCache = NoTransactions
  /\ volCache = NoVolume
  /\ lastRun = NoRun
  /\ scan = NoScan
  /\ served = NoResponse
  /\ call = EmptyApiResponseCache
  /\ priceCache = EmptyPriceCache
  /\ disk = NoDisk

\* GET /api/getVolumeData outside Vercel. The persisted entry has no `data`
\* member, so the handler comes to apiResponseCache.has(apiCacheKey): a
\* remembered result is returned as it is; otherwise preloadCache(false,
\* wallet, year) runs and the result, 'blockchain-fresh' or 'empty', is
\* remembered
GetVolumeDataRequest ==
  IF call.has
  THEN /\ served' = call.result
       /\ lastRun' = RunRecord("getVolumeData", "memory", FALSE,
                               [threw |-> FALSE, wrote |-> FALSE, requests |-> {},
                                answered |-> 0, failed |-> 0], <<>>)
       /\ UNCHANGED << tz, now, latestBlock, txCache, volCache, scan, call, priceCache, disk >>
  ELSE /\ \E fault \in Faults : PreloadEffect("getVolumeData", FALSE, fault)
       /\ served' =
            IF ~lastRun'.threw /\ volCache'.shape # "none"
            THEN LET processedData ==
                       ProcessVolumeData(IF volCache'.shape = "agg" THEN volCache' ELSE NoVolume,
                                         now, tz)
                 IN [source |-> "blockchain-fresh", daily |-> processedData.daily,
                     weekly |-> processedData.weekly, monthly |-> processedData.monthly]
            ELSE [source |-> "empty", daily |-> {}, weekly |-> {}, monthly |-> {}]
       /\ call' = [call EXCEPT !.has = TRUE, !.result = served', !.asOf = volCache']
       /\ UNCHANGED << tz, now, latestBlock, scan, priceCache, disk >>

NextServe ==
  \/ Advance
  \/ InitialCacheFetch
  \/ IncrementalFetch
  \/ PreloadCache
  \/ GetVolumeDataRequest

SpecServe == InitServe /\ [][NextServe]_vars

(***************************************************************************)
(* preloadCache.js over several cache entries: `disk` maps each key        *)
(* volume-{wallet}-{year} to its entry; an entry records the wallet and    *)
(* year its data was fetched for and how often it has been written         *)
(***************************************************************************)
MaxWrites == 2

Keys == {"master", "other"} \X {"2025", "2024"}

\* process.env.CYPHER_MASTER_WALLET || '0xcCCd...', and year = '2025'
InitialFetchKey == << "master", "2025" >>

NoVolumeEntry == [exists |-> FALSE, fetchedFor |-> << "none", "none" >>, writes |-> 0]

\* saveData(`volume-${walletAddress}-${year}`, volumeData) after a fetch for
\* that wallet and year
WrittenFor(entries, k) ==
  [entries EXCEPT ![k] = [exists |-> TRUE, fetchedFor |-> k, writes |-> entries[k].writes + 1]]

\* entries present at the start are the work of earlier refreshes for their own key
InitKeys ==
  /\ tz \in TZOffsets
  /\ now = Epochs[1].now
  /\ latestBlock = Epochs[1].head
  /\ txCache = NoTransactions
  /\ volCache = NoVolume
  /\ lastRun = NoRun
  /\ scan = NoScan
  /\ served = NoResponse
  /\ call = NoCall
  /\ priceCache = EmptyPriceCache
  /\ \E present \in SUBSET Keys :
       disk = [k \in Keys |-> IF k \in present
                              THEN [exists |-> TRUE, fetchedFor |-> k, writes |-> 0]
                              ELSE NoVolumeEntry]

\* preloadCache(forceRefresh, walletAddress, year); recent: the entry is less
\* than 15 minutes old; fails: the fetch throws (and the fallback import with it)
PreloadCacheRun ==
  \E forceRefresh \in BOOLEAN, k \in Keys, recent \in BOOLEAN, fails \in BOOLEAN :
    LET entry == disk[k]
        result(success, entries) ==
          /\ disk' = entries
          /\ call' = [fn |-> "preloadCache", forceRefresh |-> forceRefresh, key |-> k,
                      branch |-> IF entry.exists /\ recent /\ ~forceRefresh THEN "recent"
                                 ELSE IF entry.exists /\ ~forceRefresh THEN "incremental"
                                 ELSE "initial",
                      success |-> success, before |-> disk]
    IN /\ \A j \in Keys : disk[j].writes < MaxWrites
       /\ IF entry.exists /\ recent /\ ~forceRefresh THEN result(TRUE, disk)
          ELSE IF fails THEN result(FALSE, disk)
          ELSE IF entry.exists /\ ~forceRefresh
          \* incrementalModule.default(walletAddress, year, lastProcessedBlock)
          THEN result(TRUE, WrittenFor(disk, k))
          \* initialModule.default(forceRefresh, walletAddress, year): its
          \* parameter list is (forceRefresh = true); then fs.existsSync(cacheFile)
          ELSE result(WrittenFor(disk, InitialFetchKey)[k].exists,
                      WrittenFor(disk, InitialFetchKey))
       /\ UNCHANGED << tz, now, latestBlock, txCache, volCache, lastRun, scan, priceCache >>

\* node preloadCache.js / a module that calls preloadCache
PreloadCacheFor ==
  /\ PreloadCacheRun
  /\ served' = NoResponse

\* GET /api/preloadCache?wallet=&year=&forceRefresh=; authorized: not in
\* production, or the x-api-key header matches. preloadCache catches every
\* error itself, so the handler's catch is not reached
PreloadCacheHandler ==
  \E authorized \in BOOLEAN :
    IF ~authorized
    THEN /\ served' = [source |-> "preloadCacheApi", status |-> 401, success |-> FALSE]
         /\ call' = NoCall
         /\ UNCHANGED << tz, now, latestBlock, txCache, volCache, lastRun, scan, priceCache,
                         disk >>
    ELSE /\ PreloadCacheRun
         /\ served' = [source |-> "preloadCacheApi", status |-> 200, success |-> TRUE]

NextKeys ==
  \/ PreloadCacheFor
  \/ PreloadCacheHandler

SpecKeys == InitKeys /\ [][NextKeys]_vars

(***************************************************************************)
(* Properties                                                              *)
(***************************************************************************)
\* the hashes of a list of [hash, value] pairs are pairwise different
DistinctHashes(pairs) ==
  \A i, j \in DOMAIN pairs : pairs[i].hash = pairs[j].hash => i = j

\* C1: of the transfers with one hash that reach an initial or an incremental
\* run only the first is kept, so the volumes the run writes count every
\* hash once.
C1_FirstSeenOnly ==
  (lastRun.kind \in {"initial", "incremental"} /\ lastRun.wrote)
    => DistinctHashes(lastRun.counted)

\* C2: the persisted transactions-{wallet}-{year} list holds at most one
\* transaction per transaction hash, whatever refresh operations ran.
C2_OneTransactionPerHash ==
  \A i, j \in DOMAIN txCache.data :
     txCache.data[i].transactionHash = txCache.data[j].transactionHash => i = j

\* C3: an initial or incremental run never writes a blockInfo.lastProcessedBlock
\* lower than the one persisted before it (the chain head never regresses).
C3_LastProcessedBlockMonotone ==
  (lastRun.kind \in {"initial", "incremental"} /\ lastRun.wrote)
    => PersistedLastProcessedBlock(volCache) >= lastRun.prevLastProcessedBlock

C3_Witness ==
  /\ lastRun.kind \in {"initial", "incremental"}
  /\ lastRun.wrote
  /\ lastRun.prevLastProcessedBlock # 0
  /\ PersistedLastProcessedBlock(volCache) > lastRun.prevLastProcessedBlock

\* C4: a run of preloadCache without forceRefresh, or of incrementalFetch, that
\* finds a persisted lastProcessedBlock sends only requests that start at
\* lastProcessedBlock + 1, so no block at or below it is requested again.
C4_NonForcedStartsAfterLastProcessedBlock ==
  (/\ lastRun.entry \in {"preloadCache", "incrementalFetch"}
   /\ ~lastRun.force
   /\ lastRun.prevLastProcessedBlock # 0)
    => \A q \in lastRun.requests : q.fromBlock = lastRun.prevLastProcessedBlock + 1

C4_Witness ==
  /\ lastRun.entry = "preloadCache"
  /\ ~lastRun.force
  /\ lastRun.prevLastProcessedBlock # 0
  /\ lastRun.wrote
  /\ \E q \in lastRun.requests : q.fromBlock > lastRun.prevLastProcessedBlock

\* C5: a chunk of getLogsInChunks whose request fails on all its attempts does
\* not abort the fetch: the call does not throw.
C5_ExhaustedRetriesDoNotAbort ==
  scan.retryCount = LogsMaxRetries => scan.pc # "threw"

\* C6: an initial or incremental refresh throws only when the provider answered
\* none of its requests, never for one failing request among answered ones.
C6_ThrowsOnlyWhenNothingAnswered ==
  (lastRun.kind \in {"initial", "incremental"} /\ lastRun.threw) => lastRun.answered = 0

\* C7: when every request is answered, getLogsInChunks returns after chunks
\* that are consecutive and cover every block of [fromBlock, toBlock].
C7_ChunksCoverInterval ==
  (scan.pc = "returned" /\ scan.faults = 0 /\ scan.limit = 0)
    => (scan.contiguous /\ scan.coveredTo = scan.targetToBlock)

\* C8: every block range an initial or incremental run sends to the provider
\* has fromBlock <= toBlock and toBlock <= latestBlock - 5.
C8_RequestedRangesValid ==
  lastRun.kind \in {"initial", "incremental"}
    => \A q \in lastRun.requests :
          q.fromBlock <= q.toBlock /\ q.toBlock <= lastRun.head - SafetyBuffer

\* the sum of the USD values of the persisted 'in' transactions dated d
IncomingSum(d) ==
  SumValues(SelectSeq(txCache.data, LAMBDA tx : tx.direction = "in" /\ tx.date = d))

\* the run wrote the volume entry from the transactions entry
Aggregated == lastRun.kind \in {"initial", "logs", "alchemyUpdate"} /\ lastRun.wrote

C10_MonthlyIsSumOfDaily ==
  (volCache.shape = "agg" /\ volCache.hasBlockInfo)
    => \A m \in MonthStarts :
          VolumeAt(volCache.monthly, m)
            = SumVolumes({b \in volCache.daily : MonthStartOf(b.date) = m})

\* C11: in a volume entry written by the initial fetch or an incremental
\* update every weekly bucket holds the sum of the daily buckets of the seven
\* days that begin at its key.
C11_WeeklyIsSumOfItsSevenDays ==
  (volCache.shape = "agg" /\ volCache.hasBlockInfo)
    => \A w \in volCache.weekly :
          w.volume = SumVolumes({b \in volCache.daily :
                                   w.date <= b.date /\ b.date < w.date + 7})

\* the USD value the transactions of the last run add to the days of a set
AddedTo(run, days) ==
  SumValues(SelectSeq(run.counted, LAMBDA c : c.date \in days))

\* a step that is a successful incremental update of an entry that the initial
\* fetch or an incremental update wrote
IncrementalStep ==
  /\ now' = now
  /\ lastRun'.kind = "incremental"
  /\ lastRun'.wrote
  /\ volCache.shape = "agg"
  /\ volCache.hasBlockInfo

\* C12: an incremental update adds the USD value of each new transaction to
\* the daily bucket of its date and leaves every existing daily, weekly and
\* monthly bucket that receives no new transaction as it was.
C12_IncrementalAddsToExistingBuckets ==
  [][IncrementalStep =>
       /\ \A d \in Dates(volCache.daily) \cup Dates(volCache'.daily) :
             VolumeAt(volCache'.daily, d) = VolumeAt(volCache.daily, d) + AddedTo(lastRun', {d})
       /\ \A b \in volCache.weekly :
             AddedTo(lastRun', b.date .. b.date + 6) = 0 => b \in volCache'.weekly
       /\ \A b \in volCache.monthly :
             AddedTo(lastRun', {d \in -31 .. 423 : MonthStartOf(d) = b.date}) = 0
               => b \in volCache'.monthly]_vars

\* a weekly series holds every week at most once: no two of its entries lie
\* within the same seven days
NoWeekTwice(weekly) ==
  \A a \in weekly : \A b \in weekly : a.date < b.date => b.date - a.date >= 7

\* a weekly series misses no week of the days first .. last: every such day
\* lies in the seven days that begin at some entry
NoWeekMissing(weekly, first, last) ==
  \A d \in first .. last : \E w \in weekly : w.date <= d /\ d <= w.date + 6

\* C13: the weekly series the initial fetch writes and the weekly series
\* getVolumeData returns hold every week of the range exactly once: one entry
\* per week start, no week in two entries, none missing.
C13_EveryWeekExactlyOnce ==
  /\ (lastRun.kind = "initial" /\ lastRun.wrote)
       => /\ NoWeekTwice(volCache.weekly)
          /\ NoWeekMissing(volCache.weekly, 6, ISODay(volCache.lastUpdated) - 7)
  /\ served.source = "blockchain-fresh"
       => /\ NoWeekTwice(served.weekly)
          /\ NoWeekMissing(served.weekly, 6, LocalDay(now, tz) - 7)

\* the buckets of a persisted series that carry a volume and are dated within
\* the days first .. last
BucketsInside(buckets, first, last) ==
  {b \in buckets : b.volume # 0 /\ first <= b.date /\ b.date <= last}

\* C14: in the weekly and monthly series getVolumeData returns, a period that
\* contains the date of no bucket of the persisted series has volume 0: no
\* bucket's volume is reported for a period that does not contain its date.
C14_VolumeOnlyInsideItsPeriod ==
  (served.source = "blockchain-fresh" /\ volCache.shape = "agg")
    => /\ \A w \in served.weekly :
            BucketsInside(volCache.weekly, w.date, w.date + 6) = {} => w.volume = 0
       /\ \A m \in served.monthly :
            {b \in volCache.monthly : b.volume # 0 /\ MonthStartOf(b.date) = m.date} = {}
              => m.volume = 0

\* the persisted entry records no volume at all: the year has no transaction
NoVolumeRecorded(c) ==
  \A b \in c.daily \cup c.weekly \cup c.monthly : b.volume = 0

\* C15: when the year has no transaction, the data getVolumeData serves from
\* the refreshed cache holds every day, every week and every month of the year
\* so far with volume 0, none omitted.
C15_EmptyYearServedInFull ==
  (served.source = "blockchain-fresh" /\ volCache.shape = "agg" /\ NoVolumeRecorded(volCache))
    => /\ \A d \in 0 .. LocalDay(now, tz) - 1 : [date |-> d, volume |-> 0] \in served.daily
       /\ NoWeekMissing(served.weekly, 6, LocalDay(now, tz) - 7)
       /\ \A m \in {x \in MonthStarts : 0 <= x /\ x < LocalDay(now, tz)} :
             [date |-> m, volume |-> 0] \in served.monthly

\* the local time of day of an instant
TimeOfDay(t, zone) == (t + zone) % TicksPerDay

\* a returned call of fillMissingDates(data, 'daily', startDate, endDate) with
\* startDate <= endDate
DailyFillReturned ==
  /\ call.fn = "fillMissingDates"
  /\ call.returned
  /\ call.period = "daily"
  /\ call.startDate <= call.endDate

\* the result holds one entry per calendar day from the day of startDate to
\* the day of endDate, ascending, each with a volume the input gives for that
\* date (the last one, when the input names the date twice), or 0 when the
\* input has none
OneEntryPerDay ==
  LET firstDay == LocalDay(call.startDate, tz)
      lastDay == LocalDay(call.endDate, tz)
      filledData == call.filledData
  IN /\ Len(filledData) = lastDay - firstDay + 1
     /\ \A k \in DOMAIN filledData :
          /\ filledData[k].date = firstDay + k - 1
          /\ LET given == {i \in DOMAIN call.data : call.data[i].date = filledData[k].date}
             IN IF given = {} THEN filledData[k].volume = 0
                ELSE \E i \in given :
                        /\ \A j \in given : j <= i
                        /\ filledData[k].volume = call.data[i].volume

ForcedRefreshDone ==
  /\ lastRun.kind = "initial"
  /\ lastRun.force
  /\ lastRun.wrote
  /\ lastRun.failed = 0

\* the volume entry a forced full refresh writes at the time and chain head of
\* the last run when it starts from an empty cache
ForcedRefreshFromEmpty ==
  FetchTransactionsWithAlchemy(TRUE, volCache.lastUpdated, tz, lastRun.head,
                               NoTransactions, 0, PagedFail("none")).volume

\* C17: a forced full refresh writes the same daily, weekly and monthly
\* buckets whatever the cache held before: the buckets it leaves are those of a
\* forced full refresh over the same transfers that starts from an empty cache.
C17_ForcedRefreshIgnoresCache ==
  ForcedRefreshDone
    => /\ volCache.daily = ForcedRefreshFromEmpty.daily
       /\ volCache.weekly = ForcedRefreshFromEmpty.weekly
       /\ volCache.monthly = ForcedRefreshFromEmpty.monthly

\* a forced full refresh has run over a cache that held transactions and an
\* older volume entry, and has written buckets with a volume
C17_Witness ==
  /\ ForcedRefreshDone
  /\ lastRun.prevLastProcessedBlock # 0
  /\ lastRun.prevLastProcessedBlock # volCache.lastProcessedBlock
  /\ \E b \in volCache.daily : b.volume > 0

\* C18: a price lookup does not throw; it returns 1.0 for USDC, USDT and DAI
\* and for a symbol that is in no token table; when the DEX gives no price it
\* returns the cached price of the symbol, the fallback constant or 1.0. This
\* holds for the three price functions.
C18_PriceLookupDegrades ==
  call.fn \in {"getTokenPrice", "incrementalGetTokenPrice", "getTokenPriceInUSD"}
    => /\ ~call.threw
       /\ call.symbol \in Stablecoins => call.price = 1
       /\ call.symbol \notin KnownTokens \cup {"USDbC"} => call.price = 1
       /\ ~call.dexFound =>
            call.price \in {1, EthFallbackPrice} \cup ({call.cachedBefore} \ {0})

\* C19: at every moment the persisted volume entry is the complete output of
\* exactly one refresh run, and no reader finds anything else in it.
C19_EntryIsOneRunsOutput ==
  /\ disk.exists => Parses(disk.file)
  /\ disk.observed # "unparsable"

\* a step that is one call of preloadCache
PreloadStep ==
  /\ now' = now
  /\ lastRun' # lastRun
  /\ lastRun'.entry = "preloadCache"

\* the volume entry exists and its lastUpdated is less than 15 minutes old
FreshEntry ==
  /\ volCache.shape = "agg"
  /\ now - volCache.lastUpdated < FreshMs \div MsPerTick

\* without forceRefresh and on a fresh entry the call fetches nothing and
\* leaves the cache as it is
SkipsWhenFresh ==
  (~lastRun'.force /\ FreshEntry)
    => /\ lastRun'.kind = "recent"
       /\ lastRun'.requests = {}
       /\ volCache' = volCache
       /\ txCache' = txCache

C21_EntryExpiresWithItsTtl ==
  /\ (call.fn = "getData" /\ disk.saved)
       => /\ now < disk.until => call.result = disk.data
          /\ (now > disk.until /\ ~call.ignoreExpiry) => call.result = 0
  /\ (call.fn = "dataExists" /\ call.result = 1)
       => (disk.saved /\ now <= disk.until)

\* the USD value of the incoming transfers of the chain up to a head, each
\* transfer counted once
IncomingTotal(head) ==
  SumValues(SelectSeq(World, LAMBDA w : w.incoming /\ w.blockNum <= head))

\* C22: however two preloadCache runs on the same key interleave, no
\* transfer's USD value is added to the persisted daily buckets more than once.
C22_NoTransferAddedTwice ==
  call.fn = "preloadCache" => SumVolumes(volCache.daily) <= IncomingTotal(latestBlock)

\* C23: whenever a refresh persists blockInfo.lastProcessedBlock = B, every
\* incoming transfer of the requested year with a timestamp in the block range
\* that run covered (its start block .. B) has been added to the cached volume.
C23_CursorNeverPassesUnfetched ==
  (call.fn = "fetchIncrementalTransactions" /\ call.lastProcessedBlock # 0)
    => call.added = 1 .. call.inRange

\* the paginated loop of a chunk within its limits: at most maxPages pages, at
\* most maxRetries attempts for each, a further page requested only with the
\* pageKey the provider returned, and no page in allMonthTransfers twice
PagedLoopWithinLimits ==
  call.fn = "pagedChunk"
    => /\ call.currentPage <= MaxPages
       /\ call.retries <= PagedMaxRetries
       /\ call.requests <= PagedMaxRetries * (call.currentPage + 1)
       /\ (call.pc = "attempt" /\ call.currentPage > 0) => call.pageKey = call.currentPage + 1
       /\ \A i \in DOMAIN call.allMonthTransfers : \A j \in DOMAIN call.allMonthTransfers :
            i # j => call.allMonthTransfers[i] # call.allMonthTransfers[j]

\* C24: for every monthly chunk the paginated loop requests at most 5 pages
\* and makes at most 5 attempts per page, follows pageKey only while the
\* provider returns one, adds no page twice, and terminates whatever the
\* provider does.
C24_PagedLoopBoundedAndTerminates ==
  /\ []PagedLoopWithinLimits
  /\ (call.fn = "pagedChunk" /\ call.pc = "attempt") ~> (call.pc = "done")

\* the page ceiling ends a loop that retried while the provider still offers
\* a further page
C24_Witness ==
  /\ call.fn = "pagedChunk"
  /\ call.pc = "done"
  /\ call.currentPage = MaxPages
  /\ call.pageKey # 0
  /\ call.requests > MaxPages

\* C26: a failing request is retried with exponential backoff: the wait before
\* the first retry is 1 s, each following wait doubles the one before, and no
\* wait exceeds 30 s.
C26_BackoffFromOneSecondDoubling ==
  call.fn = "pagedChunk"
    => /\ call.waits # <<>> => call.waits[1] = 1000
       /\ \A i \in DOMAIN call.waits : i > 1 => call.waits[i] = 2 * call.waits[i - 1]
       /\ \A i \in DOMAIN call.waits : call.waits[i] <= 30000

\* a step of getLogsInChunks that is the catch of 'block range is too wide'
\* (the one catch that neither waits nor counts as a fault of the node)
TooWideStep ==
  /\ scan.pc = "attempt"
  /\ scan'.retryCount = scan.retryCount + 1
  /\ scan'.faults = scan.faults

\* a step of getLogsInChunks in which getLogs answers
AnswerStep == scan.pc = "attempt" /\ scan'.pc = "loop"

\* C25: a 'block range is too wide' error halves the chunk size and the retry
\* requests the sub-range that starts at the same currentFromBlock; after the
\* shrunken chunk succeeds the next chunk starts at the block right after it,
\* so that no block of [fromBlock, toBlock] is skipped by the shrinking.
C25_ShrinkingSkipsNoBlock ==
  [][ /\ TooWideStep
        => /\ scan'.chunkSize = scan.chunkSize \div 2
           /\ scan'.currentFromBlock = scan.currentFromBlock
           /\ scan'.chunkToBlock = Min(scan.currentFromBlock + scan'.chunkSize - 1,
                                       scan.targetToBlock)
      /\ AnswerStep
        => /\ scan'.currentFromBlock = scan.chunkToBlock + 1
           /\ scan'.chunkSize = scan.chunkSize
           /\ scan'.contiguous
           /\ scan'.coveredTo = scan.chunkToBlock ]_vars

\* a chunk the node accepted only after its size was halved has been fetched
\* and the next chunk has begun
C25_Witness ==
  /\ scan.pc = "attempt"
  /\ scan.chunksProcessed > 0
  /\ scan.chunkSize < DefaultChunkSize
  /\ scan.coveredTo = scan.currentFromBlock - 1
  /\ scan.retryCount = 0

\* C27: whatever 'too wide' errors the chunks of getLogsInChunks meet, the
\* chunk size stays at least 1, no request has fromBlock > toBlock, and every
\* chunk counted as processed advances currentFromBlock.
C27_ChunkSizeStaysPositive ==
  /\ [](scan.pc # "idle" => scan.chunkSize >= 1)
  /\ [](scan.pc = "attempt" => scan.currentFromBlock <= scan.chunkToBlock)
  /\ [][AnswerStep => scan'.currentFromBlock > scan.currentFromBlock]_vars

\* C28: after a refresh has persisted newer volume data, every getVolumeData
\* response is made from the newer entry: a result remembered in
\* apiResponseCache, the 'empty' one included, is never served in its place.
C28_MemoryNeverHidesNewerData ==
  (call.fn = "apiResponseCache" /\ served # NoResponse) => call.asOf = volCache

\* C29: preloadCache(forceRefresh, walletAddress, year) modifies no entry but
\* volume-{walletAddress}-{year}, and after a successful run that entry holds
\* data fetched for that wallet and year, on the initial and the incremental
\* branch alike.
C29_OnlyTheRequestedEntry ==
  call.fn = "preloadCache"
    => /\ \A k \in Keys \ {call.key} : disk[k] = call.before[k]
       /\ call.success => (disk[call.key].exists /\ disk[call.key].fetchedFor = call.key)

\* C30: the preloadCache API handler answers HTTP 200 with success: true only
\* when the preloadCache run returned success: true; a run that returned
\* success: false is reported as a failure.
C30_HandlerReportsTheRunsOutcome ==
  (served.source = "preloadCacheApi" /\ call.fn = "preloadCache")
    => ((served.status = 200 /\ served.success) <=> call.success)

====
